---- MODULE Spec2Model ----
(***************************************************************************)
(* Row serialization of the python-rs-driver: the value normalizer         *)
(* (scylla/session.py), the streaming encoder (scylla/serializer.py), the  *)
(* concatenating encoder (scylla/serializalize/serializer.py) and the      *)
(* wrapper-value encoder (scylla/serialize/serialize.py).                  *)
(*                                                                         *)
(* Python integers are unbounded.  They are kept here in a fixed radix     *)
(* form <<top, l2, l1, l0>> that stands for                                *)
(*      top * 2^48 + l2 * 2^32 + l1 * 2^16 + l0                            *)
(* with l2, l1, l0 in 0..65535 and top any (signed) integer, so that the   *)
(* 32 and 64 bit limits of the code are ordinary values of the model.      *)
(* Python strings are sequences of code points, byte strings are           *)
(* sequences of 0..255.                                                    *)
(*                                                                         *)
(* A sequence whose members are all the same is kept in the state by one   *)
(* member and their number, any other sequence as it is (Packed); the      *)
(* columns of the statement (prepared) and the values given (bundle) are   *)
(* read off that form.                                                     *)
(***************************************************************************)
EXTENDS Integers, Sequences, FiniteSets, TLC

VARIABLES statement, given, sv, last, tasks

vars == <<statement, given, sv, last, tasks>>

Packed(s) ==
  IF Len(s) >= 2 /\ \A i \in 1..Len(s) : s[i] = s[1]
    THEN [seq |-> <<s[1]>>, times |-> Len(s)]
    ELSE [seq |-> s, times |-> 1]
Unpacked(p) == IF p.times = 1 THEN p.seq ELSE [i \in 1..p.times |-> p.seq[1]]

PackedValue(v) ==
  IF v.kind \in {"list", "tuple"} THEN [v EXCEPT !.items = Packed(@)] ELSE v
UnpackedValue(v) ==
  IF v.kind \in {"list", "tuple"} THEN [v EXCEPT !.items = Unpacked(@)] ELSE v

\* the columns of the prepared statement, and the values given for them
prepared == Unpacked(statement)
bundle == UnpackedValue(given)

\* body with its name bound to value
With(value, body(_)) == body(value)

-----------------------------------------------------------------------------
(* Python integers *)

Limb == 2^16

Big(n) ==
  LET r1 == n \div Limb
      r2 == r1 \div Limb
  IN  <<r2 \div Limb, r2 % Limb, r1 % Limb, n % Limb>>

BigLE(a, b) ==
  \/ a[1] < b[1]
  \/ a[1] = b[1] /\ a[2] < b[2]
  \/ a[1] = b[1] /\ a[2] = b[2] /\ a[3] < b[3]
  \/ a[1] = b[1] /\ a[2] = b[2] /\ a[3] = b[3] /\ a[4] <= b[4]

BigIsZero(a) == a = <<0, 0, 0, 0>>

\* the integer as a small number, for the values that have one
BigFits(a) == BigLE(<<-1, 65535, 32768, 0>>, a) /\ BigLE(a, <<0, 0, 32767, 65535>>)

BigSmall(a) == IF a[1] = 0 THEN a[3] * Limb + a[4]
               ELSE (a[3] - Limb) * Limb + a[4]

INT32_MIN == <<-1, 65535, 32768, 0>>
INT32_MAX == <<0, 0, 32767, 65535>>
INT64_MIN == <<-32768, 0, 0, 0>>
INT64_MAX == <<32767, 65535, 65535, 65535>>

HiLo(l) == <<l \div 256, l % 256>>

\* struct.pack(">i", v): struct.error outside the 32 bit range
pack_i(v) ==
  IF BigLE(INT32_MIN, v) /\ BigLE(v, INT32_MAX)
    THEN [ok |-> TRUE, bytes |-> HiLo(v[3]) \o HiLo(v[4])]
    ELSE [ok |-> FALSE, bytes |-> <<>>]

\* struct.pack(">q", v): struct.error outside the 64 bit range
pack_q(v) ==
  IF BigLE(INT64_MIN, v) /\ BigLE(v, INT64_MAX)
    THEN [ok |-> TRUE,
          bytes |-> HiLo(v[1] % Limb) \o HiLo(v[2]) \o HiLo(v[3]) \o HiLo(v[4])]
    ELSE [ok |-> FALSE, bytes |-> <<>>]

\* struct.pack(">i", n) of a length or of -1
pack_len(n) == pack_i(Big(n)).bytes

-----------------------------------------------------------------------------
(* Python values *)

NoneV == [kind |-> "none"]
IntV(n) == [kind |-> "int", v |-> Big(n)]
BigV(limbs) == [kind |-> "int", v |-> limbs]
BoolV(b) == [kind |-> "bool", b |-> b]
StrV(s) == [kind |-> "str", s |-> s]
\* a float (-1)^neg * m * 2^q with m < 2^20
FloatV(neg, m, q) == [kind |-> "float", neg |-> neg, m |-> m, q |-> q]
ListV(items) == [kind |-> "list", items |-> items]
TupleV(items) == [kind |-> "tuple", items |-> items]
\* a set in its iteration order
SetV(items) == [kind |-> "set", items |-> items]
\* a dict in insertion order, items are <<key, value>>
DictV(items) == [kind |-> "dict", items |-> items]

\* a list, set or dict of n elements, for an n beyond what can be written
\* out: its elements are never looked at
LongV(kind, n) == [kind |-> kind, items |-> <<>>, len |-> n]

\* len(value)
py_len(value) == IF "len" \in DOMAIN value THEN value.len ELSE Big(Len(value.items))

\* list(value) of a set
py_list(value) == [value EXCEPT !.kind = "list"]
\* an instance: its attributes, the dict its to_dict() returns (NoneV when
\* the class has no callable to_dict), and whether the class is a dataclass
ObjV(attrs, to_dict, dataclass) ==
  [kind |-> "object", attrs |-> attrs, to_dict |-> to_dict, dataclass |-> dataclass]

-----------------------------------------------------------------------------
(* Exceptions: the class, the text of the message, and the column index    *)
(* and column name the message contains (empty when it contains none)      *)

Exc(cls, what) == [cls |-> cls, what |-> what, index |-> {}, name |-> {}]
NoExc == Exc("", "")

-----------------------------------------------------------------------------
(* Python builtins used by the serializers *)

IsDigit(c) == c >= 48 /\ c <= 57

RECURSIVE DigitsValue(_, _)
DigitsValue(s, acc) ==
  IF s = <<>> THEN acc ELSE DigitsValue(Tail(s), acc * 10 + (Head(s) - 48))

\* a decimal literal: an optional sign and one or more digits
IsIntLiteral(s) ==
  LET d == IF s # <<>> /\ Head(s) \in {43, 45} THEN Tail(s) ELSE s
  IN  d # <<>> /\ \A i \in 1..Len(d) : IsDigit(d[i])

IntLiteralValue(s) ==
  IF Head(s) = 45 THEN 0 - DigitsValue(Tail(s), 0)
  ELSE IF Head(s) = 43 THEN DigitsValue(Tail(s), 0)
  ELSE DigitsValue(s, 0)

\* the float's integer part, rounded towards zero
FloatTrunc(f) ==
  LET mag == IF f.q >= 0 THEN f.m * 2^(f.q) ELSE f.m \div 2^(0 - f.q)
  IN  IF f.neg THEN 0 - mag ELSE mag

\* int(value)
PyInt(value) ==
  CASE value.kind = "int" -> [ok |-> TRUE, v |-> value.v, exc |-> NoExc]
    [] value.kind = "bool" ->
         [ok |-> TRUE, v |-> Big(IF value.b THEN 1 ELSE 0), exc |-> NoExc]
    [] value.kind = "float" ->
         [ok |-> TRUE, v |-> Big(FloatTrunc(value)), exc |-> NoExc]
    [] value.kind = "str" ->
         IF IsIntLiteral(value.s)
           THEN [ok |-> TRUE, v |-> Big(IntLiteralValue(value.s)), exc |-> NoExc]
           ELSE [ok |-> FALSE, v |-> Big(0),
                 exc |-> Exc("ValueError", "invalid literal for int()")]
    [] OTHER ->
         [ok |-> FALSE, v |-> Big(0),
          exc |-> Exc("TypeError", "int() argument must be a string or a number")]

\* float(value); integers of 20 bits and decimal literals are converted,
\* no other integer or numeric string is given to it
PyFloat(value) ==
  CASE value.kind = "float" -> [ok |-> TRUE, f |-> value, exc |-> NoExc]
    [] value.kind = "bool" ->
         [ok |-> TRUE, f |-> FloatV(FALSE, IF value.b THEN 1 ELSE 0, 0), exc |-> NoExc]
    [] value.kind = "int" /\ BigFits(value.v)
         /\ BigSmall(value.v) < 2^20 /\ BigSmall(value.v) > 0 - 2^20 ->
         LET n == BigSmall(value.v)
         IN  [ok |-> TRUE, f |-> FloatV(n < 0, IF n < 0 THEN 0 - n ELSE n, 0),
              exc |-> NoExc]
    [] value.kind = "str" /\ IsIntLiteral(value.s) ->
         LET n == IntLiteralValue(value.s)
         IN  [ok |-> TRUE, f |-> FloatV(n < 0, IF n < 0 THEN 0 - n ELSE n, 0),
              exc |-> NoExc]
    [] value.kind = "str" /\ \A i \in 1..Len(value.s) : value.s[i] > 57 ->
         [ok |-> FALSE, f |-> FloatV(FALSE, 0, 0),
          exc |-> Exc("ValueError", "could not convert string to float")]
    [] value.kind \in {"none", "list", "tuple", "set", "dict", "object"} ->
         [ok |-> FALSE, f |-> FloatV(FALSE, 0, 0),
          exc |-> Exc("TypeError", "float() argument must be a string or a number")]

\* bool(value)
PyBool(value) ==
  CASE value.kind = "none" -> FALSE
    [] value.kind = "bool" -> value.b
    [] value.kind = "int" -> ~BigIsZero(value.v)
    [] value.kind = "float" -> value.m # 0
    [] value.kind = "str" -> value.s # <<>>
    [] value.kind \in {"list", "tuple", "set", "dict"} -> value.items # <<>>
    [] value.kind = "object" -> TRUE

RECURSIVE Decimal(_)
Decimal(n) == IF n < 10 THEN <<48 + n>> ELSE Append(Decimal(n \div 10), 48 + (n % 10))

\* str(value) of a string, of None, of a boolean and of an integer of 32
\* bits; no other value is given to it
PyStr(value) ==
  CASE value.kind = "str" -> value.s
    [] value.kind = "none" -> <<78, 111, 110, 101>>
    [] value.kind = "bool" ->
         IF value.b THEN <<84, 114, 117, 101>> ELSE <<70, 97, 108, 115, 101>>
    [] value.kind = "int" /\ BigFits(value.v) /\ value.v # INT32_MIN ->
         LET n == BigSmall(value.v)
         IN  IF n < 0 THEN <<45>> \o Decimal(0 - n) ELSE Decimal(n)

\* one code point in UTF-8; a surrogate cannot be encoded
Utf8Char(c) ==
  IF c < 128 THEN <<c>>
  ELSE IF c < 2048 THEN <<192 + (c \div 64), 128 + (c % 64)>>
  ELSE IF c < 65536
    THEN <<224 + (c \div 4096), 128 + ((c \div 64) % 64), 128 + (c % 64)>>
  ELSE <<240 + (c \div 262144), 128 + ((c \div 4096) % 64),
         128 + ((c \div 64) % 64), 128 + (c % 64)>>

IsSurrogate(c) == c >= 55296 /\ c <= 57343

RECURSIVE Utf8Bytes(_)
Utf8Bytes(s) == IF s = <<>> THEN <<>> ELSE Utf8Char(Head(s)) \o Utf8Bytes(Tail(s))

\* s.encode("utf-8")
encode_utf8(s) ==
  IF \E i \in 1..Len(s) : IsSurrogate(s[i])
    THEN [ok |-> FALSE, bytes |-> <<>>]
    ELSE [ok |-> TRUE, bytes |-> Utf8Bytes(s)]

FloatExp(f) == (CHOOSE e \in 0..19 : 2^e <= f.m /\ f.m < 2^(e + 1))

\* struct.pack(">d", f)
pack_d(f) ==
  LET sign == IF f.neg THEN 32768 ELSE 0
      e0 == FloatExp(f)
      hi == (1023 + e0 + f.q) * 2^20 + (f.m - 2^e0) * 2^(20 - e0)
  IN  IF f.m = 0 THEN HiLo(sign) \o <<0, 0, 0, 0, 0, 0>>
      ELSE HiLo(sign + (hi \div Limb)) \o HiLo(hi % Limb) \o <<0, 0, 0, 0>>

\* struct.pack(">f", f): OverflowError beyond the single precision range
pack_f(f) ==
  LET sign == IF f.neg THEN 32768 ELSE 0
      e0 == FloatExp(f)
      word == (127 + e0 + f.q) * 2^23 + (f.m - 2^e0) * 2^(23 - e0)
  IN  IF f.m = 0 THEN [ok |-> TRUE, bytes |-> HiLo(sign) \o <<0, 0>>]
      ELSE IF e0 + f.q > 127 THEN [ok |-> FALSE, bytes |-> <<>>]
      ELSE [ok |-> TRUE, bytes |-> HiLo(sign + (word \div Limb)) \o HiLo(word % Limb)]

\* a == b for the keys of a dict: strings, integers and booleans
PyEq(a, b) ==
  CASE a.kind = "str" /\ b.kind = "str" -> a.s = b.s
    [] a.kind \in {"int", "bool"} /\ b.kind \in {"int", "bool"} ->
         PyInt(a).v = PyInt(b).v
    [] OTHER -> FALSE

\* key in d, d[key]
DictHas(items, key) == \E i \in 1..Len(items) : PyEq(items[i][1], key)
DictGet(items, key) ==
  items[CHOOSE i \in 1..Len(items) : PyEq(items[i][1], key)][2]

\* hasattr(value, name), getattr(value, name): the instance attributes
HasAttr(value, name) ==
  value.kind = "object" /\ \E i \in 1..Len(value.attrs) : value.attrs[i][1] = name
GetAttr(value, name) ==
  value.attrs[CHOOSE i \in 1..Len(value.attrs) : value.attrs[i][1] = name][2]

\* hasattr(value, "to_dict") and callable(getattr(value, "to_dict"))
HasToDict(value) == value.kind = "object" /\ value.to_dict.kind # "none"

-----------------------------------------------------------------------------
(* The cell and row writers over a SerializationBuffer.  A writer state is *)
(* the bytes the row writer has put into the buffer (buf) behind the off   *)
(* bytes the buffer held before, the number of top-level cells handed out, *)
(* the next writer identity, and the calls made so far (log).              *)

Ev(op, w, of, none, W) ==
  [op |-> op, w |-> w, of |-> of, none |-> none, pos |-> W.off + Len(W.buf)]

Logged(W, e) == [W EXCEPT !.log = Append(@, e)]

\* PyRowWriter(buffer)
PyRowWriter(buffer) ==
  [buf |-> <<>>, off |-> Len(buffer.bytes), value_count |-> 0, next |-> 0, log |-> <<>>]

\* row_writer.make_cell_writer(): the new cell writer is W.next
make_cell_writer(W) ==
  [Logged(W, Ev("make_cell_writer", W.next, -1, FALSE, W))
     EXCEPT !.value_count = @ + 1, !.next = @ + 1]

\* row_writer.value_count()
value_count(W) == W.value_count

\* cell_writer.set_null()
set_null(W, cw) ==
  [Logged(W, Ev("set_null", cw, -1, FALSE, W)) EXCEPT !.buf = @ \o pack_len(-1)]

\* cell_writer.set_value(bytes)
set_value(W, cw, bytes) ==
  [Logged(W, Ev("set_value", cw, -1, FALSE, W))
     EXCEPT !.buf = @ \o pack_len(Len(bytes)) \o bytes]

\* cell_writer.into_value_builder(): four bytes are reserved for the length
\* and the builder remembers where they are
Builder(W, cw) == [w |-> cw, start |-> Len(W.buf) + 1]

into_value_builder(W, cw) ==
  [Logged(W, Ev("into_value_builder", cw, -1, FALSE, W))
     EXCEPT !.buf = @ \o <<0, 0, 0, 0>>]

\* builder.append_bytes(bytes)
append_bytes(W, b, bytes) ==
  [Logged(W, Ev("append_bytes", b.w, -1, FALSE, W)) EXCEPT !.buf = @ \o bytes]

\* builder.make_sub_writer(): the new cell writer is W.next
make_sub_writer(W, b) ==
  [Logged(W, Ev("make_sub_writer", W.next, b.w, FALSE, W)) EXCEPT !.next = @ + 1]

\* finish that counts the four bytes of the length itself into the length
finish_counting_itself(W, b) ==
  LET body == Len(W.buf) - (b.start - 1)
      len  == pack_len(body)
  IN  [Logged(W, Ev("finish", b.w, -1, FALSE, W))
         EXCEPT !.buf = [i \in 1..Len(W.buf) |->
                           IF i >= b.start /\ i <= b.start + 3
                             THEN len[i - b.start + 1] ELSE W.buf[i]]]

\* builder.finish(): the reserved bytes receive the length of the body
finish(W, b) ==
  LET body == Len(W.buf) - (b.start + 3)
      len  == pack_len(body)
  IN  [Logged(W, Ev("finish", b.w, -1, FALSE, W))
         EXCEPT !.buf = [i \in 1..Len(W.buf) |->
                           IF i >= b.start /\ i <= b.start + 3
                             THEN len[i - b.start + 1] ELSE W.buf[i]]]

-----------------------------------------------------------------------------
(* scylla/serializer.py: the serializers.  A call returns whether it       *)
(* returned normally, the exception it raised, and the writer state.       *)

Done(W) == [ok |-> TRUE, exc |-> NoExc, W |-> W]
Raise(exc, W) == [ok |-> FALSE, exc |-> exc, W |-> W]

\* IntSerializer.serialize_value with INT32_MIN < int_val < INT32_MAX
IntSerializer_serialize_value_strict(value, cw, W) ==
  LET int_val == PyInt(value)
  IN  IF ~int_val.ok THEN Raise(int_val.exc, W)
      ELSE IF ~(BigLE(INT32_MIN, int_val.v) /\ BigLE(int_val.v, INT32_MAX))
              \/ int_val.v \in {INT32_MIN, INT32_MAX}
        THEN Raise(Exc("SerializationError", "Int32 overflow"), W)
      ELSE Done(set_value(W, cw, pack_i(int_val.v).bytes))

IntSerializer_serialize_value(value, cw, W) ==
  LET int_val == PyInt(value)
  IN  IF ~int_val.ok THEN Raise(int_val.exc, W)
      ELSE IF ~(BigLE(INT32_MIN, int_val.v) /\ BigLE(int_val.v, INT32_MAX))
        THEN Raise(Exc("SerializationError", "Int32 overflow"), W)
      ELSE IF ~pack_i(int_val.v).ok THEN Raise(Exc("struct.error", "argument out of range"), W)
      ELSE Done(set_value(W, cw, pack_i(int_val.v).bytes))

BigIntSerializer_serialize_value(value, cw, W) ==
  LET long_val == PyInt(value)
  IN  IF ~long_val.ok THEN Raise(long_val.exc, W)
      ELSE IF ~(BigLE(INT64_MIN, long_val.v) /\ BigLE(long_val.v, INT64_MAX))
        THEN Raise(Exc("SerializationError", "Int64 overflow"), W)
      ELSE IF ~pack_q(long_val.v).ok THEN Raise(Exc("struct.error", "argument out of range"), W)
      ELSE Done(set_value(W, cw, pack_q(long_val.v).bytes))

TextSerializer_serialize_value(value, cw, W) ==
  LET val_to_bytes == encode_utf8(PyStr(value))
  IN  IF ~val_to_bytes.ok
        THEN Raise(Exc("UnicodeEncodeError", "surrogates not allowed"), W)
        ELSE Done(set_value(W, cw, val_to_bytes.bytes))

DoubleSerializer_serialize_value(value, cw, W) ==
  LET f == PyFloat(value)
  IN  IF ~f.ok THEN Raise(f.exc, W) ELSE Done(set_value(W, cw, pack_d(f.f)))

BooleanSerializer_serialize_value(value, cw, W) ==
  Done(set_value(W, cw, <<IF PyBool(value) THEN 1 ELSE 0>>))

FloatSerializer_serialize_value(value, cw, W) ==
  LET f == PyFloat(value)
  IN  IF ~f.ok THEN Raise(f.exc, W)
      ELSE IF ~pack_f(f.f).ok
        THEN Raise(Exc("OverflowError", "float too large to pack with f format"), W)
      ELSE Done(set_value(W, cw, pack_f(f.f).bytes))

RECURSIVE serialize_value(_, _, _, _)
RECURSIVE TypeSerializer_serialize(_, _, _, _)

\* the loop of ListSerializer.serialize_value over value[i..]
RECURSIVE ListSerializer_elements(_, _, _, _, _)
ListSerializer_elements(self, items, i, builder, W) ==
  IF i > Len(items) THEN Done(W)
  ELSE LET W1 == make_sub_writer(W, builder)
           r  == TypeSerializer_serialize(self.element_serializer, items[i], W.next, W1)
       IN  IF ~r.ok THEN r
           ELSE ListSerializer_elements(self, items, i + 1, builder, r.W)

\* ListSerializer.serialize_value with the count taken modulo 2^32 and not
\* refused when it does not fit
ListSerializer_serialize_value_wrapping(self, value, cw, W) ==
  IF value.kind \notin {"list", "tuple"}
    THEN Raise(Exc("SerializationError", "Expected list/tuple"), W)
  ELSE LET builder == Builder(W, cw)
           W1 == into_value_builder(W, cw)
           n == py_len(value)
           r == ListSerializer_elements(self, value.items, 1, builder,
                  append_bytes(W1, builder, HiLo(n[3]) \o HiLo(n[4])))
       IN  IF ~r.ok THEN r ELSE Done(finish(r.W, builder))

ListSerializer_serialize_value(self, value, cw, W) ==
  IF value.kind \notin {"list", "tuple"}
    THEN Raise(Exc("SerializationError", "Expected list/tuple"), W)
  ELSE LET builder == Builder(W, cw)
           W1 == into_value_builder(W, cw)
           element_count_bytes == pack_i(py_len(value))
       IN  IF ~element_count_bytes.ok
             THEN Raise(Exc("struct.error", "argument out of range"), W1)
           ELSE LET r == ListSerializer_elements(self, value.items, 1, builder,
                           append_bytes(W1, builder, element_count_bytes.bytes))
                IN  IF ~r.ok THEN r ELSE Done(finish(r.W, builder))

\* items without the elements that are equal to an earlier one
RECURSIVE Distinct(_)
Distinct(items) ==
  IF items = <<>> THEN <<>>
  ELSE LET front == Distinct(SubSeq(items, 1, Len(items) - 1))
           x == items[Len(items)]
       IN  IF \E j \in 1..Len(front) : front[j] = x THEN front ELSE Append(front, x)

\* SetSerializer.serialize_value that makes a set of what it is given
\* before it writes it
SetSerializer_serialize_value_as_set(self, value, cw, W) ==
  IF value.kind \notin {"set", "list", "tuple"}
    THEN Raise(Exc("SerializationError", "Expected set/list/tuple"), W)
  ELSE ListSerializer_serialize_value(
         [cls |-> "ListSerializer", element_serializer |-> self.element_serializer],
         ListV(Distinct(value.items)), cw, W)

\* SetSerializer.serialize_value that iterates whatever it is given: a
\* dict is turned into the list of its keys
SetSerializer_serialize_value_iterating(self, value, cw, W) ==
  IF value.kind \in {"set", "list", "tuple"}
    THEN ListSerializer_serialize_value(
           [cls |-> "ListSerializer", element_serializer |-> self.element_serializer],
           ListV(value.items), cw, W)
  ELSE IF value.kind = "dict"
    THEN ListSerializer_serialize_value(
           [cls |-> "ListSerializer", element_serializer |-> self.element_serializer],
           ListV([i \in 1..Len(value.items) |-> value.items[i][1]]), cw, W)
  ELSE Raise(Exc("SerializationError", "Expected set/list/tuple"), W)

SetSerializer_serialize_value(self, value, cw, W) ==
  IF value.kind = "set"
    THEN ListSerializer_serialize_value(
           [cls |-> "ListSerializer", element_serializer |-> self.element_serializer],
           py_list(value), cw, W)
  ELSE IF value.kind \notin {"list", "tuple"}
    THEN Raise(Exc("SerializationError", "Expected set/list/tuple"), W)
  ELSE ListSerializer_serialize_value(
         [cls |-> "ListSerializer", element_serializer |-> self.element_serializer],
         value, cw, W)

\* the loop of MapSerializer.serialize_value over value.items()[i..]
RECURSIVE MapSerializer_items(_, _, _, _, _)
MapSerializer_items(self, items, i, builder, W) ==
  IF i > Len(items) THEN Done(W)
  ELSE LET W1 == make_sub_writer(W, builder)
           k  == TypeSerializer_serialize(self.key_serializer, items[i][1], W.next, W1)
       IN  IF ~k.ok THEN k
           ELSE LET W2 == make_sub_writer(k.W, builder)
                    v  == TypeSerializer_serialize(self.value_serializer, items[i][2],
                                                   k.W.next, W2)
                IN  IF ~v.ok THEN v
                    ELSE MapSerializer_items(self, items, i + 1, builder, v.W)

MapSerializer_serialize_value(self, value, cw, W) ==
  IF value.kind # "dict"
    THEN Raise(Exc("SerializationError", "Expected dict"), W)
  ELSE LET builder == Builder(W, cw)
           W1 == into_value_builder(W, cw)
           element_count_bytes == pack_i(py_len(value))
       IN  IF ~element_count_bytes.ok
             THEN Raise(Exc("struct.error", "argument out of range"), W1)
           ELSE LET r == MapSerializer_items(self, value.items, 1, builder,
                           append_bytes(W1, builder, element_count_bytes.bytes))
                IN  IF ~r.ok THEN r ELSE Done(finish(r.W, builder))

\* the loop of TupleSerializer.serialize_value over zip(value, serializers)[i..]
RECURSIVE TupleSerializer_elements(_, _, _, _, _)
TupleSerializer_elements(self, items, i, builder, W) ==
  IF i > Len(items) \/ i > Len(self.element_serializers) THEN Done(W)
  ELSE LET W1 == make_sub_writer(W, builder)
           r  == TypeSerializer_serialize(self.element_serializers[i], items[i], W.next, W1)
       IN  IF ~r.ok THEN r
           ELSE TupleSerializer_elements(self, items, i + 1, builder, r.W)

\* TupleSerializer.serialize_value without the comparison of lengths: the
\* elements are paired with the serializers as far as both go
TupleSerializer_serialize_value_unchecked(self, value, cw, W) ==
  IF value.kind \notin {"list", "tuple"}
    THEN Raise(Exc("SerializationError", "Expected tuple/list"), W)
  ELSE LET builder == Builder(W, cw)
           r == TupleSerializer_elements(self, value.items, 1, builder,
                                         into_value_builder(W, cw))
       IN  IF ~r.ok THEN r ELSE Done(finish(r.W, builder))

TupleSerializer_serialize_value(self, value, cw, W) ==
  IF value.kind \notin {"list", "tuple"}
    THEN Raise(Exc("SerializationError", "Expected tuple/list"), W)
  ELSE IF py_len(value) # Big(Len(self.element_serializers))
    THEN Raise(Exc("SerializationError", "Tuple length mismatch"), W)
  ELSE LET builder == Builder(W, cw)
           r == TupleSerializer_elements(self, value.items, 1, builder,
                                         into_value_builder(W, cw))
       IN  IF ~r.ok THEN r ELSE Done(finish(r.W, builder))

\* the attribute extraction of UDTSerializer.serialize_value: the fields
\* read off the instance, or the first field it lacks
UDTSerializer_attributes(self, value) ==
  LET names == [i \in 1..Len(self.field_specs) |-> self.field_specs[i][1]]
      missing == {i \in 1..Len(names) : ~HasAttr(value, names[i])}
  IN  IF missing # {}
        THEN [ok |-> FALSE, items |-> <<>>]
        ELSE [ok |-> TRUE,
              items |-> [i \in 1..Len(names) |->
                           <<StrV(names[i]), GetAttr(value, names[i])>>]]

\* the loop over field_specs[i..] raising for a field that is no key
RECURSIVE UDTSerializer_fields_required(_, _, _, _, _)
UDTSerializer_fields_required(self, field_values, i, builder, W) ==
  IF i > Len(self.field_specs) THEN Done(W)
  ELSE LET field_name == self.field_specs[i][1]
           writer == W.next
           W1 == make_sub_writer(W, builder)
       IN  IF ~DictHas(field_values, StrV(field_name))
             THEN Raise(Exc("SerializationError", "UDT missing required field"), W1)
           ELSE LET r == TypeSerializer_serialize(self.field_specs[i][2],
                           DictGet(field_values, StrV(field_name)), writer, W1)
                IN  IF ~r.ok THEN r
                    ELSE UDTSerializer_fields_required(self, field_values, i + 1,
                                                       builder, r.W)

\* the loop of UDTSerializer.serialize_value over field_specs[i..]
RECURSIVE UDTSerializer_fields(_, _, _, _, _)
UDTSerializer_fields(self, field_values, i, builder, W) ==
  IF i > Len(self.field_specs) THEN Done(W)
  ELSE LET field_name == self.field_specs[i][1]
           field_serializer == self.field_specs[i][2]
           writer == W.next
           W1 == make_sub_writer(W, builder)
       IN  IF ~DictHas(field_values, StrV(field_name))
             THEN UDTSerializer_fields(self, field_values, i + 1, builder,
                                       set_null(W1, writer))
           ELSE LET r == TypeSerializer_serialize(field_serializer,
                           DictGet(field_values, StrV(field_name)), writer, W1)
                IN  IF ~r.ok THEN r
                    ELSE UDTSerializer_fields(self, field_values, i + 1, builder, r.W)

\* UDTSerializer.serialize_value of a dict with the loop over the keys of
\* the value that are fields, in the order of the value, and not over
\* field_specs
UDTSerializer_serialize_value_by_key_order(self, value, cw, W) ==
  LET SpecOf(kv) == self.field_specs[CHOOSE m \in 1..Len(self.field_specs) :
                                       StrV(self.field_specs[m][1]) = kv[1]]
      declared == SelectSeq(value.items,
                            LAMBDA kv : \E m \in 1..Len(self.field_specs) :
                                          StrV(self.field_specs[m][1]) = kv[1])
      ordered == [j \in 1..Len(declared) |-> SpecOf(declared[j])]
      builder == Builder(W, cw)
      r == UDTSerializer_fields([self EXCEPT !.field_specs = ordered], value.items, 1,
                                builder, into_value_builder(W, cw))
  IN  IF value.kind # "dict" THEN Raise(Exc("SerializationError", "UDT missing field"), W)
      ELSE IF ~r.ok THEN r ELSE Done(finish(r.W, builder))

\* UDTSerializer.serialize_value that returns without builder.finish()
UDTSerializer_serialize_value_unfinished(self, value, cw, W) ==
  LET attributes == UDTSerializer_attributes(self, value)
      field_values == IF value.kind = "dict" THEN value.items
                      ELSE IF HasToDict(value) THEN value.to_dict.items
                      ELSE attributes.items
  IN  IF value.kind # "dict" /\ ~HasToDict(value) /\ ~attributes.ok
        THEN Raise(Exc("SerializationError", "UDT missing field"), W)
      ELSE UDTSerializer_fields(self, field_values, 1, Builder(W, cw),
                                into_value_builder(W, cw))

UDTSerializer_serialize_value(self, value, cw, W) ==
  LET attributes == UDTSerializer_attributes(self, value)
      field_values == IF value.kind = "dict" THEN value.items
                      ELSE IF HasToDict(value) THEN value.to_dict.items
                      ELSE attributes.items
  IN  IF value.kind # "dict" /\ ~HasToDict(value) /\ ~attributes.ok
        THEN Raise(Exc("SerializationError", "UDT missing field"), W)
      ELSE LET builder == Builder(W, cw)
               r == UDTSerializer_fields(self, field_values, 1, builder,
                                         into_value_builder(W, cw))
           IN  IF ~r.ok THEN r ELSE Done(finish(r.W, builder))

\* serialize_value of the serializer's class
serialize_value(self, value, cw, W0) ==
  LET W == Logged(W0, Ev("serialize_value", cw, -1, FALSE, W0))
  IN  CASE self.cls = "IntSerializer" -> IntSerializer_serialize_value(value, cw, W)
        [] self.cls = "BigIntSerializer" -> BigIntSerializer_serialize_value(value, cw, W)
        [] self.cls = "TextSerializer" -> TextSerializer_serialize_value(value, cw, W)
        [] self.cls = "DoubleSerializer" -> DoubleSerializer_serialize_value(value, cw, W)
        [] self.cls = "BooleanSerializer" -> BooleanSerializer_serialize_value(value, cw, W)
        [] self.cls = "FloatSerializer" -> FloatSerializer_serialize_value(value, cw, W)
        [] self.cls = "ListSerializer" -> ListSerializer_serialize_value(self, value, cw, W)
        [] self.cls = "SetSerializer" -> SetSerializer_serialize_value(self, value, cw, W)
        [] self.cls = "MapSerializer" -> MapSerializer_serialize_value(self, value, cw, W)
        [] self.cls = "TupleSerializer" -> TupleSerializer_serialize_value(self, value, cw, W)
        [] self.cls = "UDTSerializer" -> UDTSerializer_serialize_value(self, value, cw, W)

\* TypeSerializer.serialize without its test for None
TypeSerializer_serialize_unguarded(self, value, cell_writer, W0) ==
  serialize_value(self, value, cell_writer,
                  Logged(W0, Ev("serialize", cell_writer, -1, value.kind = "none", W0)))

\* TypeSerializer.serialize
TypeSerializer_serialize(self, value, cell_writer, W0) ==
  LET W == Logged(W0, Ev("serialize", cell_writer, -1, value.kind = "none", W0))
  IN  IF value.kind = "none" THEN Done(set_null(W, cell_writer))
      ELSE serialize_value(self, value, cell_writer, W)

\* create_serializer_from_col_type: the serializer, or the exception
RECURSIVE create_serializer_from_col_type(_)

\* the serializers of a sequence of types, up to the first that fails
RECURSIVE create_serializers(_, _, _)
create_serializers(types, i, acc) ==
  IF i > Len(types) THEN [ok |-> TRUE, sers |-> acc, exc |-> NoExc]
  ELSE LET r == create_serializer_from_col_type(types[i])
       IN  IF ~r.ok THEN [ok |-> FALSE, sers |-> acc, exc |-> r.exc]
           ELSE create_serializers(types, i + 1, Append(acc, r.ser))

create_serializer_from_col_type(col_type) ==
  LET Built(ser) == [ok |-> TRUE, ser |-> ser, exc |-> NoExc]
      Failed(exc) == [ok |-> FALSE, ser |-> [cls |-> ""], exc |-> exc]
  IN
  CASE col_type.k = "native" ->
         IF col_type.name = "Int" THEN Built([cls |-> "IntSerializer"])
         ELSE IF col_type.name = "Float" THEN Built([cls |-> "FloatSerializer"])
         ELSE IF col_type.name = "Double" THEN Built([cls |-> "DoubleSerializer"])
         ELSE IF col_type.name = "Text" THEN Built([cls |-> "TextSerializer"])
         ELSE IF col_type.name = "Boolean" THEN Built([cls |-> "BooleanSerializer"])
         ELSE IF col_type.name = "BigInt" THEN Built([cls |-> "BigIntSerializer"])
         ELSE Failed(Exc("SerializationError", "Unsupported native type"))
    [] col_type.k = "collection" ->
         IF col_type.name = "List" THEN
           LET e == create_serializer_from_col_type(col_type.column_type)
           IN  IF ~e.ok THEN e
               ELSE Built([cls |-> "ListSerializer", element_serializer |-> e.ser])
         ELSE IF col_type.name = "Set" THEN
           LET e == create_serializer_from_col_type(col_type.column_type)
           IN  IF ~e.ok THEN e
               ELSE Built([cls |-> "SetSerializer", element_serializer |-> e.ser])
         ELSE IF col_type.name = "Map" THEN
           LET key == create_serializer_from_col_type(col_type.key_type)
               val == create_serializer_from_col_type(col_type.value_type)
           IN  IF ~key.ok THEN key
               ELSE IF ~val.ok THEN val
               ELSE Built([cls |-> "MapSerializer", key_serializer |-> key.ser,
                           value_serializer |-> val.ser])
         ELSE Failed(Exc("SerializationError", "Unsupported collection type"))
    [] col_type.k = "tuple" ->
         LET es == create_serializers(col_type.element_types, 1, <<>>)
         IN  IF ~es.ok THEN Failed(es.exc)
             ELSE Built([cls |-> "TupleSerializer", element_serializers |-> es.sers])
    [] col_type.k = "udt" ->
         IF ~col_type.has_fields
           THEN Failed(Exc("SerializationError", "UDT type missing fields metadata"))
         ELSE LET types == [i \in 1..Len(col_type.field_types) |-> col_type.field_types[i][2]]
                  fs == create_serializers(types, 1, <<>>)
              IN  IF ~fs.ok THEN Failed(fs.exc)
                  ELSE Built([cls |-> "UDTSerializer",
                              field_specs |-> [i \in 1..Len(types) |->
                                 <<col_type.field_types[i][1], fs.sers[i]>>]])
    [] OTHER -> Failed(Exc("SerializationError", "Unsupported type"))

-----------------------------------------------------------------------------
(* scylla/serializer.py: SerializedValues *)

\* SerializationBuffer()
SerializationBuffer == [bytes |-> <<>>, element_count |-> 0]

\* buffer.set_element_count(n)
set_element_count(buffer, n) == [buffer EXCEPT !.element_count = n]

\* PyRowSerializationContext.from_prepared(prepared), ctx.get_columns()
from_prepared(stmt) == Packed(stmt)
get_columns(ctx) == Unpacked(ctx)

\* SerializedValues(prepared)
SerializedValues_init(stmt) ==
  [buffer |-> SerializationBuffer, ctx |-> from_prepared(stmt)]

\* the writer state in which the next iteration starts, and the state
\* after two runs of iterations
Continue(W) == [W EXCEPT !.buf = <<>>, !.log = <<>>, !.off = W.off + Len(W.buf)]
Joined(A, B) == [B EXCEPT !.buf = A.buf \o B.buf, !.log = A.log \o B.log, !.off = A.off]

\* one iteration of the loop of add_row: column i (0-based)
add_row_column(value, column, i, W) ==
  LET cell_writer == W.next
      W1 == make_cell_writer(W)
      W2 == Logged(W1, Ev("create_serializer_from_col_type", cell_writer, i, FALSE, W1))
      type_serializer == create_serializer_from_col_type(column.typ)
  IN  IF ~type_serializer.ok
        THEN Raise([type_serializer.exc EXCEPT !.cls = "SerializationError"], W2)
      ELSE With(TypeSerializer_serialize(type_serializer.ser, value, cell_writer, W2),
                LAMBDA r : IF ~r.ok
                             THEN Raise([r.exc EXCEPT !.cls = "SerializationError"], r.W)
                           ELSE r)

\* the loop of add_row as a collector: the iterations after one that raised
\* are made as well, and the first exception is raised at the end
RECURSIVE add_row_loop_collecting(_, _, _, _, _)
add_row_loop_collecting(values, columns, lo, hi, W) ==
  IF lo > hi THEN Done(W)
  ELSE IF lo = hi THEN add_row_column(values[lo], columns[lo], lo - 1, W)
  ELSE LET mid == (lo + hi) \div 2
           first == add_row_loop_collecting(values, columns, lo, mid, W)
           rest == add_row_loop_collecting(values, columns, mid + 1, hi, Continue(first.W))
       IN  [ok |-> first.ok /\ rest.ok,
            exc |-> IF ~first.ok THEN first.exc ELSE rest.exc,
            W |-> Joined(first.W, rest.W)]

\* the iterations lo..hi of the loop of add_row over zip(values, columns),
\* in order and up to the first that raises; the range is halved so that a
\* row as wide as the element count limit can be evaluated
RECURSIVE add_row_loop(_, _, _, _, _)
add_row_loop(values, columns, lo, hi, W) ==
  IF lo > hi THEN Done(W)
  ELSE IF lo = hi THEN add_row_column(values[lo], columns[lo], lo - 1, W)
  ELSE LET mid == (lo + hi) \div 2
           first == add_row_loop(values, columns, lo, mid, W)
       IN  IF ~first.ok THEN first
           ELSE LET rest == add_row_loop(values, columns, mid + 1, hi, Continue(first.W))
                IN  [rest EXCEPT !.W = Joined(first.W, rest.W)]

Min(a, b) == IF a < b THEN a ELSE b

\* add_row without the comparison of len(values) with len(columns): zip
\* stops at the shorter of the two
SerializedValues_add_row_zip(self, values) ==
  LET row_writer == PyRowWriter(self.buffer)
      columns == get_columns(self.ctx)
      Outcome(ok, exc, W, buffer) ==
        [ok |-> ok, exc |-> exc, log |-> W.log, value_count |-> W.value_count,
         buffer |-> buffer]
      Written(W) == [self.buffer EXCEPT !.bytes = @ \o W.buf]
  IN  IF values = <<>>
        THEN Outcome(FALSE,
                     Exc("SerializationError", "Serialization failed: values not provided"),
                     row_writer, self.buffer)
      ELSE LET r == add_row_loop(values, columns, 1, Min(Len(values), Len(columns)),
                                 row_writer)
           IN  IF ~r.ok THEN Outcome(FALSE, r.exc, r.W, Written(r.W))
               ELSE Outcome(TRUE, NoExc, r.W,
                            set_element_count(Written(r.W), value_count(r.W)))

\* SerializedValues.add_row(values): the outcome, the buffer afterwards
\* and the calls made on the writers
SerializedValues_add_row(self, values) ==
  LET row_writer == PyRowWriter(self.buffer)
      columns == get_columns(self.ctx)
      Outcome(ok, exc, W, buffer) ==
        [ok |-> ok, exc |-> exc, log |-> W.log, value_count |-> W.value_count,
         buffer |-> buffer]
      Written(W) == [self.buffer EXCEPT !.bytes = @ \o W.buf]
  IN  IF Len(values) # Len(columns)
        THEN Outcome(FALSE, Exc("SerializationError", "Wrong length"),
                     row_writer, self.buffer)
      ELSE IF values = <<>>
        THEN Outcome(FALSE,
                     Exc("SerializationError", "Serialization failed: values not provided"),
                     row_writer, self.buffer)
      ELSE With(add_row_loop(values, columns, 1, Min(Len(values), Len(columns)),
                             row_writer),
                LAMBDA r :
                  LET element_count == value_count(r.W)
                  IN  IF ~r.ok THEN Outcome(FALSE, r.exc, r.W, Written(r.W))
                      ELSE IF element_count < 0 \/ element_count > 65535
                        THEN Outcome(FALSE,
                               Exc("SerializationError",
                                   "Serialization failed: Element count must be in u16 range"),
                               r.W, Written(r.W))
                      ELSE Outcome(TRUE, NoExc, r.W,
                                   set_element_count(Written(r.W), element_count)))

-----------------------------------------------------------------------------
(* scylla/session.py *)

\* dataclasses.asdict on the value of a field
RECURSIVE asdict_inner(_)
asdict_inner(v) ==
  CASE v.kind = "object" /\ v.dataclass ->
         DictV([i \in 1..Len(v.attrs) |->
                  <<StrV(v.attrs[i][1]), asdict_inner(v.attrs[i][2])>>])
    [] v.kind \in {"list", "tuple"} ->
         [v EXCEPT !.items = [i \in 1..Len(v.items) |-> asdict_inner(v.items[i])]]
    [] v.kind = "dict" ->
         [v EXCEPT !.items = [i \in 1..Len(v.items) |->
                                <<asdict_inner(v.items[i][1]), asdict_inner(v.items[i][2])>>]]
    [] OTHER -> v

\* [d[col] for col in columns]: the list, or the first column that is no key
Lookup(items, columns) ==
  LET missing == {i \in 1..Len(columns) : ~DictHas(items, StrV(columns[i]))}
  IN  IF missing # {}
        THEN [ok |-> FALSE, ret |-> <<>>,
              key |-> columns[CHOOSE i \in missing : \A j \in missing : i <= j]]
        ELSE [ok |-> TRUE, key |-> <<>>,
              ret |-> [i \in 1..Len(columns) |-> DictGet(items, StrV(columns[i]))]]

\* prepared.get_columns_name()
get_columns_name(stmt) == [i \in 1..Len(stmt) |-> stmt[i].name]

\* _normalize_values with list(values.values()) for a dict: the values in
\* the order of the keys of the mapping
normalize_values_by_key_order(stmt, values) ==
  IF values.kind \in {"list", "tuple"}
    THEN [ok |-> TRUE, ret |-> values.items, exc |-> NoExc]
  ELSE IF values.kind = "dict"
    THEN [ok |-> TRUE, exc |-> NoExc,
          ret |-> [i \in 1..Len(values.items) |-> values.items[i][2]]]
  ELSE IF values.kind = "object"
    THEN [ok |-> TRUE, exc |-> NoExc,
          ret |-> [i \in 1..Len(values.attrs) |-> values.attrs[i][2]]]
  ELSE [ok |-> TRUE, ret |-> <<values>>, exc |-> NoExc]

\* _normalize_values(prepared, values)
normalize_values(stmt, values) ==
  LET columns == get_columns_name(stmt)
      Found(l, what) ==
        IF l.ok THEN [ok |-> TRUE, ret |-> l.ret, exc |-> NoExc]
        ELSE [ok |-> FALSE, ret |-> <<>>,
              exc |-> [Exc("RuntimeError", what) EXCEPT !.name = {l.key}]]
  IN  IF values.kind \in {"list", "tuple"}
        THEN [ok |-> TRUE, ret |-> values.items, exc |-> NoExc]
      ELSE IF values.kind = "dict"
        THEN Found(Lookup(values.items, columns), "Missing key for column")
      ELSE IF values.kind = "object" /\ values.dataclass
        THEN Found(Lookup(asdict_inner(values).items, columns), "Missing field for column")
      ELSE IF values.kind = "object"
        THEN Found(Lookup([i \in 1..Len(values.attrs) |->
                             <<StrV(values.attrs[i][1]), values.attrs[i][2]>>], columns),
                   "Missing attribute for column")
      ELSE [ok |-> TRUE, ret |-> <<values>>, exc |-> NoExc]

\* execute_unpaged_python that goes on to the request with what add_row
\* has written when add_row raises
execute_unpaged_python_swallowing(stmt, values) ==
  With(normalize_values(stmt, values), LAMBDA normalized :
    IF ~normalized.ok
      THEN [ok |-> FALSE, exc |-> [normalized.exc EXCEPT !.cls = "RuntimeError"],
            data |-> SerializationBuffer, log |-> <<>>, value_count |-> 0]
    ELSE With(SerializedValues_add_row(SerializedValues_init(stmt), normalized.ret),
              LAMBDA row :
                [ok |-> TRUE, exc |-> NoExc, data |-> row.buffer, log |-> row.log,
                 value_count |-> row.value_count]))

\* execute_unpaged_python that adds its row to an object kept between
\* calls instead of one it makes for the call
execute_unpaged_python_keeping(stmt, values) ==
  With(normalize_values(stmt, values), LAMBDA normalized :
    IF ~normalized.ok
      THEN [ok |-> FALSE, exc |-> [normalized.exc EXCEPT !.cls = "RuntimeError"],
            data |-> SerializationBuffer, log |-> <<>>, value_count |-> 0]
    ELSE With(SerializedValues_add_row(sv.obj, normalized.ret),
              LAMBDA row :
                IF ~row.ok
                  THEN [ok |-> FALSE, exc |-> [row.exc EXCEPT !.cls = "RuntimeError"],
                        data |-> SerializationBuffer, log |-> row.log,
                        value_count |-> row.value_count]
                ELSE [ok |-> TRUE, exc |-> NoExc, data |-> row.buffer, log |-> row.log,
                      value_count |-> row.value_count]))

\* execute_unpaged_python(self, prepared, values) up to the request: the
\* buffer handed to _execute_raw_bytes, or the RuntimeError raised
execute_unpaged_python(stmt, values) ==
  With(normalize_values(stmt, values), LAMBDA normalized :
    IF ~normalized.ok
      THEN [ok |-> FALSE, exc |-> [normalized.exc EXCEPT !.cls = "RuntimeError"],
            data |-> SerializationBuffer, log |-> <<>>, value_count |-> 0]
    ELSE With(SerializedValues_add_row(SerializedValues_init(stmt), normalized.ret),
              LAMBDA row :
                IF ~row.ok
                  THEN [ok |-> FALSE, exc |-> [row.exc EXCEPT !.cls = "RuntimeError"],
                        data |-> SerializationBuffer, log |-> row.log,
                        value_count |-> row.value_count]
                ELSE [ok |-> TRUE, exc |-> NoExc, data |-> row.buffer, log |-> row.log,
                      value_count |-> row.value_count]))

-----------------------------------------------------------------------------
(* scylla/serializalize/serializer.py: the serializers that return bytes.  *)
(* A call returns whether it returned normally, the exception it raised,   *)
(* and the bytes.                                                          *)

Bytes(b) == [ok |-> TRUE, exc |-> NoExc, bytes |-> b]
RaiseB(exc) == [ok |-> FALSE, exc |-> exc, bytes |-> <<>>]

IntSerializer_serialize_raw(value) ==
  LET int_val == PyInt(value)
  IN  IF value.kind = "none" THEN Bytes(<<>>)
      ELSE IF ~int_val.ok THEN RaiseB(int_val.exc)
      ELSE IF ~(BigLE(INT32_MIN, int_val.v) /\ BigLE(int_val.v, INT32_MAX))
        THEN RaiseB(Exc("SerializationError", "Int32 overflow"))
      ELSE IF ~pack_i(int_val.v).ok THEN RaiseB(Exc("struct.error", "argument out of range"))
      ELSE Bytes(pack_i(int_val.v).bytes)

BigIntSerializer_serialize_raw(value) ==
  LET long_val == PyInt(value)
  IN  IF value.kind = "none" THEN Bytes(<<>>)
      ELSE IF ~long_val.ok THEN RaiseB(long_val.exc)
      ELSE IF ~(BigLE(INT64_MIN, long_val.v) /\ BigLE(long_val.v, INT64_MAX))
        THEN RaiseB(Exc("SerializationError", "Int64 overflow"))
      ELSE IF ~pack_q(long_val.v).ok THEN RaiseB(Exc("struct.error", "argument out of range"))
      ELSE Bytes(pack_q(long_val.v).bytes)

TextSerializer_serialize_raw(value) ==
  IF value.kind = "none" THEN Bytes(<<>>)
  ELSE IF ~encode_utf8(PyStr(value)).ok
    THEN RaiseB(Exc("UnicodeEncodeError", "surrogates not allowed"))
  ELSE Bytes(encode_utf8(PyStr(value)).bytes)

DoubleSerializer_serialize_raw(value) ==
  IF value.kind = "none" THEN Bytes(<<>>)
  ELSE IF ~PyFloat(value).ok THEN RaiseB(PyFloat(value).exc)
  ELSE Bytes(pack_d(PyFloat(value).f))

BooleanSerializer_serialize_raw(value) ==
  IF value.kind = "none" THEN Bytes(<<>>)
  ELSE Bytes(<<IF PyBool(value) THEN 1 ELSE 0>>)

FloatSerializer_serialize_raw(value) ==
  IF value.kind = "none" THEN Bytes(<<>>)
  ELSE IF ~PyFloat(value).ok THEN RaiseB(PyFloat(value).exc)
  ELSE IF ~pack_f(PyFloat(value).f).ok
    THEN RaiseB(Exc("OverflowError", "float too large to pack with f format"))
  ELSE Bytes(pack_f(PyFloat(value).f).bytes)

RECURSIVE serialize_raw(_, _)
RECURSIVE TypeSerializer_serialize_with_length(_, _)

\* the loop of ListSerializer.serialize_raw over value[i..]
RECURSIVE ListSerializer_raw_elements(_, _, _, _)
ListSerializer_raw_elements(self, items, i, result) ==
  IF i > Len(items) THEN Bytes(result)
  ELSE LET element_bytes ==
             TypeSerializer_serialize_with_length(self.element_serializer, items[i])
       IN  IF ~element_bytes.ok THEN element_bytes
           ELSE ListSerializer_raw_elements(self, items, i + 1,
                                            result \o element_bytes.bytes)

ListSerializer_serialize_raw(self, value) ==
  IF value.kind \notin {"list", "tuple"}
    THEN RaiseB(Exc("SerializationError", "Expected list/tuple"))
  ELSE IF ~pack_i(py_len(value)).ok
    THEN RaiseB(Exc("struct.error", "argument out of range"))
  ELSE ListSerializer_raw_elements(self, value.items, 1,
                                   pack_i(py_len(value)).bytes)

SetSerializer_serialize_raw(self, value) ==
  IF value.kind = "none" THEN Bytes(<<>>)
  ELSE IF value.kind = "set"
    THEN ListSerializer_serialize_raw(
           [cls |-> "ListSerializer", element_serializer |-> self.element_serializer],
           py_list(value))
  ELSE IF value.kind \notin {"list", "tuple"}
    THEN RaiseB(Exc("SerializationError", "Expected set/list/tuple"))
  ELSE ListSerializer_serialize_raw(
         [cls |-> "ListSerializer", element_serializer |-> self.element_serializer], value)

\* the loop of MapSerializer.serialize_raw over value.items()[i..]
RECURSIVE MapSerializer_raw_items(_, _, _, _)
MapSerializer_raw_items(self, items, i, result) ==
  IF i > Len(items) THEN Bytes(result)
  ELSE LET key_bytes == TypeSerializer_serialize_with_length(self.key_serializer, items[i][1])
           value_bytes ==
             TypeSerializer_serialize_with_length(self.value_serializer, items[i][2])
       IN  IF ~key_bytes.ok THEN key_bytes
           ELSE IF ~value_bytes.ok THEN value_bytes
           ELSE MapSerializer_raw_items(self, items, i + 1,
                                        result \o key_bytes.bytes \o value_bytes.bytes)

MapSerializer_serialize_raw(self, value) ==
  IF value.kind # "dict"
    THEN RaiseB(Exc("SerializationError", "Expected dict"))
  ELSE IF ~pack_i(py_len(value)).ok
    THEN RaiseB(Exc("struct.error", "argument out of range"))
  ELSE MapSerializer_raw_items(self, value.items, 1, pack_i(py_len(value)).bytes)

\* the loop of TupleSerializer.serialize_raw over zip(value, serializers)[i..]
RECURSIVE TupleSerializer_raw_elements(_, _, _, _)
TupleSerializer_raw_elements(self, items, i, result) ==
  IF i > Len(items) \/ i > Len(self.element_serializers) THEN Bytes(result)
  ELSE LET element_bytes ==
             TypeSerializer_serialize_with_length(self.element_serializers[i], items[i])
       IN  IF ~element_bytes.ok THEN element_bytes
           ELSE TupleSerializer_raw_elements(self, items, i + 1,
                                             result \o element_bytes.bytes)

TupleSerializer_serialize_raw(self, value) ==
  IF value.kind \notin {"list", "tuple"}
    THEN RaiseB(Exc("SerializationError", "Expected tuple/list"))
  ELSE IF py_len(value) # Big(Len(self.element_serializers))
    THEN RaiseB(Exc("SerializationError", "Tuple length mismatch"))
  ELSE TupleSerializer_raw_elements(self, value.items, 1, <<>>)

\* the loop of UDTSerializer.serialize_raw over field_specs[i..]
RECURSIVE UDTSerializer_raw_fields(_, _, _, _)
UDTSerializer_raw_fields(self, field_values, i, result) ==
  IF i > Len(self.field_specs) THEN Bytes(result)
  ELSE IF ~DictHas(field_values, StrV(self.field_specs[i][1]))
    THEN RaiseB(Exc("SerializationError", "UDT missing required field"))
  ELSE LET field_bytes ==
             TypeSerializer_serialize_with_length(self.field_specs[i][2],
               DictGet(field_values, StrV(self.field_specs[i][1])))
       IN  IF ~field_bytes.ok THEN field_bytes
           ELSE UDTSerializer_raw_fields(self, field_values, i + 1,
                                         result \o field_bytes.bytes)

UDTSerializer_serialize_raw(self, value) ==
  LET attributes == UDTSerializer_attributes(self, value)
      field_values == IF value.kind = "dict" THEN value.items
                      ELSE IF HasToDict(value) THEN value.to_dict.items
                      ELSE attributes.items
  IN  IF value.kind = "none" THEN Bytes(<<>>)
      ELSE IF value.kind # "dict" /\ ~HasToDict(value) /\ ~attributes.ok
        THEN RaiseB(Exc("SerializationError", "UDT missing field"))
      ELSE UDTSerializer_raw_fields(self, field_values, 1, <<>>)

\* serialize_raw of the serializer's class
serialize_raw(self, value) ==
  CASE self.cls = "IntSerializer" -> IntSerializer_serialize_raw(value)
    [] self.cls = "BigIntSerializer" -> BigIntSerializer_serialize_raw(value)
    [] self.cls = "TextSerializer" -> TextSerializer_serialize_raw(value)
    [] self.cls = "DoubleSerializer" -> DoubleSerializer_serialize_raw(value)
    [] self.cls = "BooleanSerializer" -> BooleanSerializer_serialize_raw(value)
    [] self.cls = "FloatSerializer" -> FloatSerializer_serialize_raw(value)
    [] self.cls = "ListSerializer" -> ListSerializer_serialize_raw(self, value)
    [] self.cls = "SetSerializer" -> SetSerializer_serialize_raw(self, value)
    [] self.cls = "MapSerializer" -> MapSerializer_serialize_raw(self, value)
    [] self.cls = "TupleSerializer" -> TupleSerializer_serialize_raw(self, value)
    [] self.cls = "UDTSerializer" -> UDTSerializer_serialize_raw(self, value)

\* TypeSerializer.serialize_with_length
TypeSerializer_serialize_with_length(self, value) ==
  IF value.kind = "none" THEN Bytes(pack_len(-1))
  ELSE With(serialize_raw(self, value), LAMBDA raw_bytes :
         IF ~raw_bytes.ok THEN raw_bytes
         ELSE IF ~pack_i(Big(Len(raw_bytes.bytes))).ok
           THEN RaiseB(Exc("struct.error", "argument out of range"))
         ELSE Bytes(pack_i(Big(Len(raw_bytes.bytes))).bytes \o raw_bytes.bytes))

\* the "type_struct" dict of a column, as ctx.columns() gives it; Absent is a
\* key the dict does not have
Absent == [kind |-> "absent"]

RECURSIVE type_struct(_)
type_struct(col_type) ==
  CASE col_type.k = "none" -> Absent
    [] col_type.k = "native" ->
         [kind |-> "native",
          name |-> CASE col_type.name = "Int" -> "int"
                     [] col_type.name = "BigInt" -> "bigint"
                     [] col_type.name = "Text" -> "text"
                     [] col_type.name = "Double" -> "double"
                     [] col_type.name = "Float" -> "float"
                     [] col_type.name = "Boolean" -> "boolean"
                     [] OTHER -> "uuid"]
    [] col_type.k = "collection" /\ col_type.name \in {"List", "Set"} ->
         [kind |-> "collection",
          name |-> IF col_type.name = "List" THEN "list" ELSE "set",
          element_type |-> type_struct(col_type.column_type)]
    [] col_type.k = "collection" /\ col_type.name = "Map" ->
         [kind |-> "collection", name |-> "map",
          key_type |-> type_struct(col_type.key_type),
          value_type |-> type_struct(col_type.value_type)]
    [] col_type.k = "tuple" ->
         [kind |-> "tuple", name |-> "tuple",
          element_types |-> [i \in 1..Len(col_type.element_types) |->
                               type_struct(col_type.element_types[i])]]
    [] col_type.k = "udt" ->
         [kind |-> "user_defined", name |-> "udt",
          has_fields |-> col_type.has_fields,
          fields |-> [i \in 1..Len(col_type.field_types) |->
                        [name |-> col_type.field_types[i][1],
                         type |-> type_struct(col_type.field_types[i][2])]]]

\* ctx.columns()
columns_of(stmt) ==
  [i \in 1..Len(stmt) |-> [name |-> stmt[i].name, type_struct |-> type_struct(stmt[i].typ)]]

\* create_serializer_from_type_spec: the serializer, or the exception
RECURSIVE create_serializer_from_type_spec(_)

RECURSIVE create_serializers_from_type_specs(_, _, _)
create_serializers_from_type_specs(specs, i, acc) ==
  IF i > Len(specs) THEN [ok |-> TRUE, sers |-> acc, exc |-> NoExc]
  ELSE LET r == create_serializer_from_type_spec(specs[i])
       IN  IF ~r.ok THEN [ok |-> FALSE, sers |-> acc, exc |-> r.exc]
           ELSE create_serializers_from_type_specs(specs, i + 1, Append(acc, r.ser))

\* the loop over fields_metadata: the (name, serializer) pairs
RECURSIVE create_field_specs(_, _, _)
create_field_specs(fields, i, acc) ==
  IF i > Len(fields) THEN [ok |-> TRUE, sers |-> acc, exc |-> NoExc]
  ELSE IF fields[i].name = <<>> \/ fields[i].type = Absent
    THEN [ok |-> FALSE, sers |-> acc,
          exc |-> Exc("SerializationError", "UDT field missing name or type")]
  ELSE LET r == create_serializer_from_type_spec(fields[i].type)
       IN  IF ~r.ok THEN [ok |-> FALSE, sers |-> acc, exc |-> r.exc]
           ELSE create_field_specs(fields, i + 1, Append(acc, <<fields[i].name, r.ser>>))

create_serializer_from_type_spec(type_spec) ==
  LET Built(ser) == [ok |-> TRUE, ser |-> ser, exc |-> NoExc]
      Failed(exc) == [ok |-> FALSE, ser |-> [cls |-> ""], exc |-> exc]
  IN
  CASE type_spec.kind = "native" ->
         IF type_spec.name \in {"int", "integer"} THEN Built([cls |-> "IntSerializer"])
         ELSE IF type_spec.name \in {"bigint", "long", "counter"}
           THEN Built([cls |-> "BigIntSerializer"])
         ELSE IF type_spec.name \in {"text", "varchar", "ascii"}
           THEN Built([cls |-> "TextSerializer"])
         ELSE IF type_spec.name = "double" THEN Built([cls |-> "DoubleSerializer"])
         ELSE IF type_spec.name = "float" THEN Built([cls |-> "FloatSerializer"])
         ELSE IF type_spec.name = "boolean" THEN Built([cls |-> "BooleanSerializer"])
         ELSE Failed(Exc("SerializationError", "Unsupported native type"))
    [] type_spec.kind = "collection" ->
         IF type_spec.name = "list" THEN
           IF type_spec.element_type = Absent
             THEN Failed(Exc("SerializationError", "List type missing element_type"))
           ELSE LET e == create_serializer_from_type_spec(type_spec.element_type)
                IN  IF ~e.ok THEN e
                    ELSE Built([cls |-> "ListSerializer", element_serializer |-> e.ser])
         ELSE IF type_spec.name = "set" THEN
           IF type_spec.element_type = Absent
             THEN Failed(Exc("SerializationError", "Set type missing element_type"))
           ELSE LET e == create_serializer_from_type_spec(type_spec.element_type)
                IN  IF ~e.ok THEN e
                    ELSE Built([cls |-> "SetSerializer", element_serializer |-> e.ser])
         ELSE IF type_spec.name = "map" THEN
           IF type_spec.key_type = Absent \/ type_spec.value_type = Absent
             THEN Failed(Exc("SerializationError", "Map type missing key_type or value_type"))
           ELSE LET key == create_serializer_from_type_spec(type_spec.key_type)
                    val == create_serializer_from_type_spec(type_spec.value_type)
                IN  IF ~key.ok THEN key
                    ELSE IF ~val.ok THEN val
                    ELSE Built([cls |-> "MapSerializer", key_serializer |-> key.ser,
                                value_serializer |-> val.ser])
         ELSE Failed(Exc("SerializationError", "Unsupported collection type"))
    [] type_spec.kind = "tuple" ->
         LET es == create_serializers_from_type_specs(type_spec.element_types, 1, <<>>)
         IN  IF ~es.ok THEN Failed(es.exc)
             ELSE Built([cls |-> "TupleSerializer", element_serializers |-> es.sers])
    [] type_spec.kind = "user_defined" ->
         IF ~type_spec.has_fields
           THEN Failed(Exc("SerializationError", "UDT type missing fields metadata"))
         ELSE LET fs == create_field_specs(type_spec.fields, 1, <<>>)
              IN  IF ~fs.ok THEN Failed(fs.exc)
                  ELSE Built([cls |-> "UDTSerializer", field_specs |-> fs.sers])
    [] OTHER -> Failed(Exc("SerializationError", "Unsupported type kind"))

\* the exception with the column it came from: "Column {i} ('{name}'): {e}"
InColumn(exc, i, column_name) ==
  [exc EXCEPT !.cls = "SerializationError", !.index = {i}, !.name = {column_name}]

\* one iteration of the loop of serialize: column i (0-based); the log
\* has the columns for which a serializer was asked for
serialize_column(value, column, i) ==
  LET type_serializer == create_serializer_from_type_spec(column.type_struct)
      asked == <<[op |-> "create_serializer_from_type_spec", w |-> -1, of |-> i,
                  none |-> FALSE, pos |-> 0]>>
  IN  IF column.type_struct = Absent
        THEN [ok |-> FALSE, bytes |-> <<>>, log |-> <<>>,
              exc |-> InColumn(Exc("SerializationError", "missing type_struct metadata"),
                               i, column.name)]
      ELSE IF ~type_serializer.ok
        THEN [ok |-> FALSE, bytes |-> <<>>, log |-> asked,
              exc |-> InColumn(type_serializer.exc, i, column.name)]
      ELSE With(TypeSerializer_serialize_with_length(type_serializer.ser, value),
                LAMBDA value_bytes :
                  IF ~value_bytes.ok
                    THEN [ok |-> FALSE, bytes |-> <<>>, log |-> asked,
                          exc |-> InColumn(value_bytes.exc, i, column.name)]
                  ELSE [ok |-> TRUE, bytes |-> value_bytes.bytes, log |-> asked,
                        exc |-> NoExc])

\* the iterations lo..hi of the loop of serialize, in order and up to the
\* first that raises, with the bytes appended to serialized_data
RECURSIVE serialize_loop(_, _, _, _)
serialize_loop(vals, columns, lo, hi) ==
  IF lo > hi THEN [ok |-> TRUE, bytes |-> <<>>, log |-> <<>>, exc |-> NoExc]
  ELSE IF lo = hi THEN serialize_column(vals[lo], columns[lo], lo - 1)
  ELSE LET mid == (lo + hi) \div 2
           first == serialize_loop(vals, columns, lo, mid)
       IN  IF ~first.ok THEN first
           ELSE LET rest == serialize_loop(vals, columns, mid + 1, hi)
                IN  [rest EXCEPT !.bytes = first.bytes \o @, !.log = first.log \o @]

\* serialize with a serialized_data that is not made anew by the call: the
\* bytes are appended to those a caller has written before
serialize_appending(vals, stmt) ==
  With(columns_of(stmt), LAMBDA columns :
    IF Len(vals) # Len(columns)
      THEN [ok |-> FALSE, exc |-> Exc("SerializationError", "Value count mismatch"),
            bytes |-> <<>>, count |-> 0, log |-> <<>>]
    ELSE With(serialize_loop(vals, columns, 1, Min(Len(vals), Len(columns))), LAMBDA r :
           IF ~r.ok
             THEN [ok |-> FALSE, exc |-> r.exc, bytes |-> <<>>, count |-> 0, log |-> r.log]
           ELSE [ok |-> TRUE, exc |-> NoExc, bytes |-> sv.obj.buffer.bytes \o r.bytes,
                 count |-> Len(vals), log |-> r.log]))

\* serialize(values, prepared): the pair returned, or the exception
serialize(vals, stmt) ==
  With(columns_of(stmt), LAMBDA columns :
    IF Len(vals) # Len(columns)
      THEN [ok |-> FALSE, exc |-> Exc("SerializationError", "Value count mismatch"),
            bytes |-> <<>>, count |-> 0, log |-> <<>>]
    ELSE IF vals = <<>>
      THEN [ok |-> TRUE, exc |-> NoExc, bytes |-> <<>>, count |-> 0, log |-> <<>>]
    ELSE With(serialize_loop(vals, columns, 1, Min(Len(vals), Len(columns))), LAMBDA r :
           IF ~r.ok
             THEN [ok |-> FALSE, exc |-> r.exc, bytes |-> <<>>, count |-> 0, log |-> r.log]
           ELSE [ok |-> TRUE, exc |-> NoExc, bytes |-> r.bytes, count |-> Len(vals),
                 log |-> r.log]))

-----------------------------------------------------------------------------
(* scylla/serialize/serialize.py: values wrapped by the caller (Int,       *)
(* BigInt, Double, Boolean, Text, List, UserDefinedType) serialize         *)
(* themselves against a column type of scylla/serialize/column_type.py.    *)

\* a wrapper object of class cls around value
Wrapper(cls, value) == [kind |-> "wrapper", cls |-> cls, value |-> value]

\* isinstance(typ, column_type.Native), .Collection, .List, .UserDefinedType
IsNative(typ) == typ.k = "native"
IsCollection(typ) == typ.k = "collection"
IsList(typ) == typ.k = "collection" /\ typ.name = "List"
IsUserDefinedType(typ) == typ.k = "udt"

\* exact_type_check_native(actual_typ, expected_native): whether it returns
exact_type_check_native(actual_typ, expected_native) == IsNative(actual_typ)

\* isinstance(value, SerializeValue)
IsSerializeValue(value) == value.kind = "wrapper"

NativeWrapper_serialize_value(self, typ, expected_native, raw) ==
  IF ~exact_type_check_native(typ, expected_native)
    THEN RaiseB(Exc("TypeCheckError", "Type check failed"))
  ELSE IF ~raw.ok THEN RaiseB(raw.exc)
  ELSE Bytes(pack_len(Len(raw.bytes)) \o raw.bytes)

Int_serialize_value(self, typ) ==
  NativeWrapper_serialize_value(self, typ, "INT",
    IF pack_i(self.value.v).ok THEN Bytes(pack_i(self.value.v).bytes)
    ELSE RaiseB(Exc("struct.error", "argument out of range")))

BigInt_serialize_value(self, typ) ==
  NativeWrapper_serialize_value(self, typ, "BIGINT",
    IF pack_q(self.value.v).ok THEN Bytes(pack_q(self.value.v).bytes)
    ELSE RaiseB(Exc("struct.error", "argument out of range")))

Double_serialize_value(self, typ) ==
  NativeWrapper_serialize_value(self, typ, "DOUBLE", Bytes(pack_d(self.value)))

Boolean_serialize_value(self, typ) ==
  NativeWrapper_serialize_value(self, typ, "BOOLEAN",
    Bytes(<<IF self.value.b THEN 1 ELSE 0>>))

Text_serialize_value(self, typ) ==
  NativeWrapper_serialize_value(self, typ, "TEXT",
    IF encode_utf8(self.value.s).ok THEN Bytes(encode_utf8(self.value.s).bytes)
    ELSE RaiseB(Exc("UnicodeEncodeError", "surrogates not allowed")))

RECURSIVE SerializeValue_serialize_value(_, _)

\* the loop of serialize_sequence over the iterator from element i
RECURSIVE serialize_sequence_elements(_, _, _, _)
serialize_sequence_elements(elements, i, elt, result) ==
  IF i > Len(elements) THEN Bytes(result)
  ELSE LET element_bytes == SerializeValue_serialize_value(elements[i], elt)
       IN  IF ~element_bytes.ok
             THEN RaiseB(Exc("SerializationError", "ElementSerializationFailed"))
           ELSE serialize_sequence_elements(elements, i + 1, elt,
                                            result \o element_bytes.bytes)

\* serialize_sequence(rust_name, length, iterator, typ)
serialize_sequence(length, elements, typ) ==
  IF ~(IsCollection(typ) /\ ~typ.frozen /\ IsList(typ))
    THEN RaiseB(Exc("TypeCheckError", "NotSetOrList"))
  ELSE IF ~BigLE(length, INT32_MAX)
    THEN RaiseB(Exc("SerializationError", "TooManyElements"))
  ELSE LET r == serialize_sequence_elements(elements, 1, typ.column_type,
                                            pack_i(length).bytes)
       IN  IF ~r.ok THEN r ELSE Bytes(pack_len(Len(r.bytes)) \o r.bytes)

List_serialize_value(self, typ) ==
  IF ~IsCollection(typ) /\ IsList(typ)
    THEN RaiseB(Exc("TypeCheckError", "NotSetOrList"))
  ELSE serialize_sequence(IF "len" \in DOMAIN self THEN self.len ELSE Big(Len(self.value)),
                          self.value, typ)

\* the loop of UserDefinedType.serialize_value over field_types[i..]
RECURSIVE UserDefinedType_fields(_, _, _, _)
UserDefinedType_fields(self, field_types, i, result) ==
  IF i > Len(field_types) THEN Bytes(result)
  ELSE IF ~DictHas(self.value, StrV(field_types[i][1]))
    THEN RaiseB(Exc("SerializationError", "MissingRequiredField"))
  ELSE LET field_bytes ==
             SerializeValue_serialize_value(DictGet(self.value, StrV(field_types[i][1])),
                                            field_types[i][2])
       IN  IF ~field_bytes.ok
             THEN RaiseB(Exc("SerializationError", "FieldSerializationFailed"))
           ELSE UserDefinedType_fields(self, field_types, i + 1,
                                       result \o field_bytes.bytes)

UserDefinedType_serialize_value(self, typ) ==
  IF ~IsUserDefinedType(typ)
    THEN RaiseB(Exc("TypeCheckError", "NotUserDefinedType"))
  ELSE LET r == UserDefinedType_fields(self, typ.field_types, 1, <<>>)
       IN  IF ~r.ok THEN r ELSE Bytes(pack_len(Len(r.bytes)) \o r.bytes)

\* value.serialize_value(typ) of the value's class; a value of another
\* class has no such method
SerializeValue_serialize_value(value, typ) ==
  IF ~IsSerializeValue(value)
    THEN RaiseB(Exc("AttributeError", "object has no attribute 'serialize_value'"))
  ELSE CASE value.cls = "Int" -> Int_serialize_value(value, typ)
         [] value.cls = "BigInt" -> BigInt_serialize_value(value, typ)
         [] value.cls = "Double" -> Double_serialize_value(value, typ)
         [] value.cls = "Boolean" -> Boolean_serialize_value(value, typ)
         [] value.cls = "Text" -> Text_serialize_value(value, typ)
         [] value.cls = "List" -> List_serialize_value(value, typ)
         [] value.cls = "UserDefinedType" -> UserDefinedType_serialize_value(value, typ)

\* one iteration of the loop of ValueList.serialize: column i (0-based)
ValueList_column(value, col_spec, i) ==
  LET value_bytes == SerializeValue_serialize_value(value, col_spec.typ)
      asked == <<[op |-> "serialize_value", w |-> -1, of |-> i, none |-> FALSE, pos |-> 0]>>
  IN  IF ~IsSerializeValue(value)
        THEN [ok |-> FALSE, bytes |-> <<>>, log |-> <<>>,
              exc |-> [Exc("SerializationError",
                           "does not implement SerializeValue protocol")
                         EXCEPT !.index = {i}]]
      ELSE IF ~value_bytes.ok
        THEN [ok |-> FALSE, bytes |-> <<>>, log |-> asked,
              exc |-> [InColumn(value_bytes.exc, i, col_spec.name)
                         EXCEPT !.what = "Failed to serialize value"]]
      ELSE [ok |-> TRUE, bytes |-> value_bytes.bytes, log |-> asked, exc |-> NoExc]

\* the iterations lo..hi of the loop of ValueList.serialize, in order and
\* up to the first that raises
RECURSIVE ValueList_loop(_, _, _, _)
ValueList_loop(vals, columns, lo, hi) ==
  IF lo > hi THEN [ok |-> TRUE, bytes |-> <<>>, log |-> <<>>, exc |-> NoExc]
  ELSE IF lo = hi THEN ValueList_column(vals[lo], columns[lo], lo - 1)
  ELSE LET mid == (lo + hi) \div 2
           first == ValueList_loop(vals, columns, lo, mid)
       IN  IF ~first.ok THEN first
           ELSE LET rest == ValueList_loop(vals, columns, mid + 1, hi)
                IN  [rest EXCEPT !.bytes = first.bytes \o @, !.log = first.log \o @]

\* ValueList(values).serialize(ctx): the pair returned, or the exception
ValueList_serialize(vals, ctx) ==
  LET r == ValueList_loop(vals, ctx, 1, Min(Len(vals), Len(ctx)))
      element_count == Len(vals)
  IN  IF Len(vals) # Len(ctx)
        THEN [ok |-> FALSE, exc |-> Exc("SerializationError", "Value count mismatch"),
              bytes |-> <<>>, count |-> 0, log |-> <<>>]
      ELSE IF ~r.ok
        THEN [ok |-> FALSE, exc |-> r.exc, bytes |-> <<>>, count |-> 0, log |-> r.log]
      ELSE IF element_count < 0 \/ element_count > 65535
        THEN [ok |-> FALSE,
              exc |-> Exc("SerializationError", "Element count must be in u16 range"),
              bytes |-> <<>>, count |-> 0, log |-> r.log]
      ELSE [ok |-> TRUE, exc |-> NoExc, bytes |-> r.bytes, count |-> element_count,
            log |-> r.log]

-----------------------------------------------------------------------------
(* Column types, prepared statements and the values given to them *)

Native(name) == [k |-> "native", name |-> name]
ListT(frozen, e) == [k |-> "collection", name |-> "List", frozen |-> frozen, column_type |-> e]
SetT(frozen, e) == [k |-> "collection", name |-> "Set", frozen |-> frozen, column_type |-> e]
MapT(frozen, key, val) ==
  [k |-> "collection", name |-> "Map", frozen |-> frozen, key_type |-> key, value_type |-> val]
TupleT(es) == [k |-> "tuple", element_types |-> es]
\* the type a collection has in the place of an element type it lacks
NoType == [k |-> "none"]
UdtT(frozen, fields) ==
  [k |-> "udt", frozen |-> frozen, has_fields |-> TRUE, field_types |-> fields]

Column(name, typ) == [name |-> name, typ |-> typ]

\* the names used, as code points
n_id == <<105, 100>>
n_name == <<110, 97, 109, 101>>
n_col == <<99, 111, 108>>
n_addr == <<97, 100, 100, 114>>
n_street == <<115, 116, 114, 101, 101, 116>>
n_city == <<99, 105, 116, 121>>
n_zip == <<122, 105, 112>>
n_tags == <<116, 97, 103, 115>>
n_extra == <<120>>

\* the number of add_row calls made on one SerializedValues object
MaxRows == 2

\* the width of the widest statement
WideColumns == 65536

\* the longest result and the longest log kept in the record of a call
MaxKept == 4096

AddressT == UdtT(TRUE, << <<n_street, Native("Text")>>, <<n_city, Native("Text")>>,
                          <<n_zip, Native("Int")>> >>)

StmtBasic == <<Column(n_id, Native("Int")), Column(n_name, Native("Text"))>>
StmtBig == <<Column(n_id, Native("BigInt"))>>
StmtUdt == <<Column(n_id, Native("Int")), Column(n_addr, AddressT)>>
StmtList == <<Column(n_tags, ListT(FALSE, ListT(TRUE, Native("Int"))))>>
StmtMixed == <<Column(n_col, TupleT(<<Native("Int"), Native("Text")>>)),
               Column(n_tags, MapT(FALSE, Native("Text"), Native("Int"))),
               Column(n_name, SetT(FALSE, Native("Boolean")))>>
StmtFloat == <<Column(n_col, Native("Double")), Column(n_name, Native("Float"))>>
StmtUuid == <<Column(n_id, Native("Int")), Column(n_col, Native("Uuid")),
              Column(n_name, Native("Text"))>>
StmtNone == <<>>
\* malformed type metadata: a UDT with two fields of one name, and a list
\* that lacks its element type
StmtDup == <<Column(n_addr, UdtT(TRUE, << <<n_street, Native("Text")>>,
                                          <<n_street, Native("Text")>> >>))>>
StmtBare == <<Column(n_tags, ListT(FALSE, NoType))>>
StmtWide == [i \in 1..WideColumns |-> Column(n_col, Native("Int"))]

Statements == {StmtBasic, StmtBig, StmtUdt, StmtList, StmtMixed, StmtFloat, StmtUuid,
               StmtNone, StmtDup, StmtBare}

TwoPow31 == <<0, 0, 32768, 0>>
TwoPow63 == <<32768, 0, 0, 0>>

IntValues ==
  {NoneV, IntV(0), IntV(-1), IntV(123), BigV(INT32_MAX), BigV(INT32_MIN),
   BigV(TwoPow31), BigV(<<-1, 65535, 32767, 65535>>), BigV(INT64_MAX),
   StrV(<<49, 50>>), StrV(<<97>>), BoolV(TRUE)}

BigIntValues ==
  IntValues \cup {BigV(INT64_MIN), BigV(TwoPow63), BigV(<<-32769, 65535, 65535, 65535>>),
                  BigV(<<1, 0, 0, 1>>), FloatV(TRUE, 5, -1)}

TextValues == {NoneV, StrV(<<>>), StrV(<<77, 233, 8364>>), StrV(<<55357>>), IntV(7)}

\* dicts and instances for the address type
AddressValues ==
  {NoneV,
   DictV(<< <<StrV(n_street), StrV(<<65>>)>>, <<StrV(n_city), StrV(<<66>>)>>,
            <<StrV(n_zip), IntV(5)>> >>),
   DictV(<< <<StrV(n_zip), IntV(5)>>, <<StrV(n_extra), IntV(9)>>,
            <<StrV(n_city), StrV(<<66>>)>>, <<StrV(n_street), StrV(<<65>>)>> >>),
   DictV(<< <<StrV(n_street), StrV(<<65>>)>> >>),
   DictV(<< <<StrV(n_zip), BigV(TwoPow31)>>, <<StrV(n_street), NoneV>> >>),
   DictV(<<>>),
   ObjV(<< <<n_street, StrV(<<65>>)>>, <<n_city, StrV(<<66>>)>>, <<n_zip, IntV(5)>> >>,
        NoneV, TRUE),
   ObjV(<< <<n_street, StrV(<<65>>)>> >>, NoneV, FALSE),
   ObjV(<< <<n_street, StrV(<<65>>)>> >>,
        DictV(<< <<StrV(n_city), StrV(<<66>>)>> >>), FALSE),
   IntV(3)}

ListValues ==
  {NoneV, ListV(<<>>),
   ListV(<<ListV(<<IntV(1), IntV(2), IntV(3)>>), ListV(<<>>), ListV(<<IntV(4)>>)>>),
   ListV(<<NoneV, ListV(<<NoneV, IntV(1)>>)>>),
   ListV(<<ListV(<<IntV(1)>>), ListV(<<BigV(TwoPow31)>>), ListV(<<IntV(2)>>)>>),
   TupleV(<<TupleV(<<IntV(1)>>)>>),
   ListV(<<IntV(1)>>), StrV(<<97>>), DictV(<<>>),
   LongV("list", TwoPow31), LongV("tuple", <<0, 1, 0, 0>>)}

TupleValues ==
  {NoneV, TupleV(<<IntV(1), StrV(<<97>>)>>), TupleV(<<NoneV, NoneV>>),
   ListV(<<IntV(1), StrV(<<97>>)>>), TupleV(<<IntV(1)>>),
   TupleV(<<IntV(1), StrV(<<97>>), IntV(2)>>), TupleV(<<StrV(<<97>>), IntV(1)>>)}

MapValues ==
  {NoneV, DictV(<<>>),
   DictV(<< <<StrV(<<98>>), IntV(2)>>, <<StrV(<<97>>), IntV(1)>> >>),
   DictV(<< <<StrV(<<97>>), NoneV>> >>),
   DictV(<< <<StrV(<<97>>), BigV(TwoPow31)>> >>),
   ListV(<<IntV(1)>>), LongV("dict", TwoPow31)}

SetValues ==
  {NoneV, SetV(<<BoolV(TRUE), BoolV(FALSE)>>), ListV(<<BoolV(TRUE), BoolV(TRUE)>>),
   TupleV(<<IntV(0), NoneV>>), DictV(<< <<StrV(<<97>>), StrV(<<98>>)>> >>), SetV(<<>>),
   LongV("set", TwoPow31), LongV("list", TwoPow31)}

FloatValues ==
  {NoneV, FloatV(FALSE, 3, -1), FloatV(TRUE, 1, 1), FloatV(FALSE, 0, 0),
   FloatV(FALSE, 1, 200), IntV(2), StrV(<<97>>), ListV(<<>>)}

\* the positional rows given to a statement
Rows(stmt) ==
  CASE stmt = StmtBasic -> {<<a, b>> : a \in IntValues, b \in TextValues}
    [] stmt = StmtBig -> {<<a>> : a \in BigIntValues}
    [] stmt = StmtUdt -> {<<a, b>> : a \in {IntV(1), BigV(TwoPow31)}, b \in AddressValues}
    [] stmt = StmtList -> {<<a>> : a \in ListValues}
    [] stmt = StmtMixed ->
         {<<a, b, c>> : a \in TupleValues, b \in {NoneV, DictV(<<>>)}, c \in {SetV(<<>>)}}
         \cup {<<a, b, c>> : a \in {TupleV(<<NoneV, NoneV>>)}, b \in MapValues, c \in SetValues}
    [] stmt = StmtFloat -> {<<a, b>> : a \in FloatValues, b \in FloatValues}
    [] stmt = StmtUuid -> {<<a, NoneV, b>> : a \in {IntV(1), BigV(TwoPow31)},
                                            b \in {NoneV, StrV(<<65>>)}}
    [] stmt = StmtNone -> {<<>>}
    [] stmt = StmtDup -> {<<NoneV>>, <<DictV(<< <<StrV(n_street), StrV(<<65>>)>> >>)>>}
    [] stmt = StmtBare -> {<<NoneV>>, <<ListV(<<>>)>>, <<ListV(<<IntV(1)>>)>>}
    [] stmt = StmtWide -> {[i \in 1..WideColumns |-> IntV(1)]}

\* rows of another length than the statement
WrongRows(stmt) ==
  IF stmt = StmtWide THEN {[i \in 1..(WideColumns - 1) |-> NoneV]}
  ELSE {<<IntV(1)>>, <<>>, <<IntV(1), StrV(<<65>>), NoneV, NoneV>>,
        <<IntV(1), StrV(<<65>>)>>, <<IntV(1), NoneV, NoneV>>}
       \ {r \in {<<IntV(1)>>, <<>>, <<IntV(1), StrV(<<65>>), NoneV, NoneV>>,
                 <<IntV(1), StrV(<<65>>)>>, <<IntV(1), NoneV, NoneV>>} : Len(r) = Len(stmt)}

\* a row as a dict keyed by the column names in the order perm, without the
\* columns in drop and with one more key when extra
AsDict(stmt, row, perm, drop, extra) ==
  DictV(SelectSeq([i \in 1..Len(perm) |-> <<StrV(stmt[perm[i]].name), row[perm[i]]>>],
                  LAMBDA kv : kv[1].s \notin drop)
        \o (IF extra THEN << <<StrV(n_extra), IntV(9)>> >> ELSE <<>>))

\* a row as an instance with the column names as attributes
AsObject(stmt, row, perm, drop, dataclass) ==
  ObjV(SelectSeq([i \in 1..Len(perm) |-> <<stmt[perm[i]].name, row[perm[i]]>>],
                 LAMBDA kv : kv[1] \notin drop),
       NoneV, dataclass)

Perms(n) == {p \in [1..n -> 1..n] : \A i, j \in 1..n : p[i] = p[j] => i = j}

SampleRow(stmt) ==
  CASE stmt = StmtBasic -> <<IntV(1), StrV(<<65>>)>>
    [] stmt = StmtBig -> <<BigV(TwoPow31)>>
    [] stmt = StmtUdt -> <<IntV(1), DictV(<< <<StrV(n_street), StrV(<<65>>)>> >>)>>
    [] stmt = StmtList -> <<ListV(<<ListV(<<IntV(1)>>)>>)>>
    [] stmt = StmtMixed -> <<TupleV(<<IntV(1), NoneV>>), NoneV, SetV(<<BoolV(TRUE)>>)>>
    [] stmt = StmtFloat -> <<FloatV(FALSE, 3, -1), IntV(2)>>
    [] stmt = StmtUuid -> <<IntV(1), NoneV, NoneV>>
    [] stmt = StmtNone -> <<>>
    [] stmt = StmtDup -> <<DictV(<< <<StrV(n_street), StrV(<<65>>)>> >>)>>
    [] stmt = StmtBare -> <<ListV(<<>>)>>
    [] stmt = StmtWide -> <<>>

\* the value bundles given to _normalize_values and execute_unpaged_python
Bundles(stmt) ==
  {ListV(r) : r \in Rows(stmt) \cup WrongRows(stmt)}
  \cup (IF stmt = StmtWide THEN {}
        ELSE {TupleV(SampleRow(stmt)), IntV(5), NoneV, SetV(<<IntV(1)>>)}
             \cup {AsDict(stmt, SampleRow(stmt), p, d, e) :
                     p \in Perms(Len(stmt)), d \in {{}, {n_name}, {n_id, n_col}, {n_tags}},
                     e \in BOOLEAN}
             \cup {AsObject(stmt, SampleRow(stmt), p, d, dc) :
                     p \in Perms(Len(stmt)), d \in {{}, {n_name}, {n_id, n_col}},
                     dc \in BOOLEAN})

\* the column types scylla/serialize/column_type.py can express
RECURSIVE Expressible(_)
Expressible(typ) ==
  CASE typ.k = "native" -> typ.name \in {"Int", "BigInt", "Double", "Boolean", "Text"}
    [] typ.k = "collection" -> typ.name = "List" /\ Expressible(typ.column_type)
    [] typ.k = "udt" -> \A i \in 1..Len(typ.field_types) : Expressible(typ.field_types[i][2])
    [] typ.k = "none" -> TRUE
    [] OTHER -> FALSE

\* the value as a caller wraps it: the wrapper class of its Python type,
\* the value itself where no wrapper can be constructed for it
RECURSIVE Wrapped(_)
Wrapped(v) ==
  CASE v.kind = "int" /\ BigLE(INT32_MIN, v.v) /\ BigLE(v.v, INT32_MAX) -> Wrapper("Int", v)
    [] v.kind = "int" /\ ~(BigLE(INT32_MIN, v.v) /\ BigLE(v.v, INT32_MAX))
         /\ BigLE(INT64_MIN, v.v) /\ BigLE(v.v, INT64_MAX) -> Wrapper("BigInt", v)
    [] v.kind = "float" -> Wrapper("Double", v)
    [] v.kind = "bool" -> Wrapper("Boolean", v)
    [] v.kind = "str" -> Wrapper("Text", v)
    [] v.kind \in {"list", "tuple"} /\ "len" \in DOMAIN v ->
         [kind |-> "wrapper", cls |-> "List", value |-> <<>>, len |-> v.len]
    [] v.kind \in {"list", "tuple"} /\ "len" \notin DOMAIN v ->
         Wrapper("List", [i \in 1..Len(v.items) |-> Wrapped(v.items[i])])
    [] v.kind = "dict" ->
         Wrapper("UserDefinedType",
                 [i \in 1..Len(v.items) |-> <<v.items[i][1], Wrapped(v.items[i][2])>>])
    [] OTHER -> v

-----------------------------------------------------------------------------
(* The state: the prepared statement and the value bundle the caller       *)
(* encodes with it, a SerializedValues object in the hands of the caller   *)
(* (with the number of rows added to it), and the last call with its       *)
(* outcome: what it returned (ret) and the calls it made on the writers    *)
(* and for the serializers (log), each with its length, and kept itself    *)
(* when it is no longer than MaxKept.                                      *)

Kept(s) == IF Len(s) <= MaxKept THEN s ELSE <<>>

Call(op, ok, exc, ret, count, log) ==
  [op |-> op, ok |-> ok, exc |-> exc, count |-> count,
   ret |-> Kept(ret), size |-> Len(ret), log |-> Kept(log), calls |-> Len(log)]

InitOf(stmts) ==
  /\ \E s \in stmts : statement = Packed(s)
  /\ \E b \in Bundles(Unpacked(statement)) : given = PackedValue(b)
  /\ sv = [obj |-> SerializedValues_init(prepared), rows |-> 0]
  /\ last = Call("prepare", TRUE, NoExc, <<>>, 0, <<>>)
  /\ tasks = <<>>

Init == InitOf(Statements)

\* _normalize_values(prepared, bundle)
NormalizeValues ==
  /\ \E r \in {normalize_values(prepared, bundle)} :
       last' = Call("_normalize_values", r.ok, r.exc, r.ret, 0, <<>>)
  /\ UNCHANGED <<statement, given, sv, tasks>>

\* serialized_values = SerializedValues(prepared)
NewSerializedValues ==
  /\ sv.rows > 0
  /\ sv' = [obj |-> SerializedValues_init(prepared), rows |-> 0]
  /\ last' = Call("SerializedValues", TRUE, NoExc, <<>>, 0, <<>>)
  /\ UNCHANGED <<statement, given, tasks>>

\* serialized_values.add_row(_normalize_values(prepared, bundle))
AddRow ==
  /\ sv.rows < MaxRows
  /\ \E n \in {normalize_values(prepared, bundle)} :
       /\ n.ok
       /\ \E r \in {SerializedValues_add_row(sv.obj, n.ret)} :
            /\ sv' = [obj |-> [sv.obj EXCEPT !.buffer = r.buffer], rows |-> sv.rows + 1]
            /\ last' = Call("add_row", r.ok, r.exc, r.buffer.bytes, r.value_count, r.log)
  /\ UNCHANGED <<statement, given, tasks>>

\* serialized_values.get_content()
GetContent ==
  /\ last' = Call("get_content", TRUE, NoExc, sv.obj.buffer.bytes,
                  sv.obj.buffer.element_count, <<>>)
  /\ UNCHANGED <<statement, given, sv, tasks>>

\* session.execute_unpaged_python(prepared, bundle), up to the request
ExecuteUnpagedPython ==
  /\ \E r \in {execute_unpaged_python(prepared, bundle)} :
       last' = Call("execute_unpaged_python", r.ok, r.exc, r.data.bytes,
                    r.data.element_count, r.log)
  /\ UNCHANGED <<statement, given, sv, tasks>>

\* serialize(_normalize_values(prepared, bundle), prepared)
Serialize ==
  /\ \E n \in {normalize_values(prepared, bundle)} :
       /\ n.ok
       /\ \E r \in {serialize(n.ret, prepared)} :
            last' = Call("serialize", r.ok, r.exc, r.bytes, r.count, r.log)
  /\ UNCHANGED <<statement, given, sv, tasks>>

\* ValueList(values).serialize(ctx) with the values wrapped
ValueListSerialize ==
  /\ {i \in 1..Len(prepared) : ~Expressible(prepared[i].typ)} = {}
  /\ \E n \in {normalize_values(prepared, bundle)} :
       /\ n.ok
       /\ \E r \in {ValueList_serialize([i \in 1..Len(n.ret) |-> Wrapped(n.ret[i])],
                                        prepared)} :
            last' = Call("ValueList.serialize", r.ok, r.exc, r.bytes, r.count, r.log)
  /\ UNCHANGED <<statement, given, sv, tasks>>

\* the caller takes other values for the next row of the same object
TakeValues ==
  /\ last.op = "add_row" /\ last.ok /\ sv.rows = 1
  /\ \E b \in Bundles(prepared) : b # bundle /\ given' = PackedValue(b)
  /\ last' = Call("values", TRUE, NoExc, <<>>, 0, <<>>)
  /\ UNCHANGED <<statement, sv, tasks>>

Next ==
  \/ TakeValues
  \/ NormalizeValues
  \/ Serialize
  \/ ValueListSerialize
  \/ NewSerializedValues
  \/ AddRow
  \/ GetContent
  \/ ExecuteUnpagedPython

Spec == Init /\ [][Next]_vars

\* Rows as wide as the element count limit: every call made on a freshly
\* prepared statement, the widest statement included
Fresh == last.op = "prepare"

InitWide == InitOf({StmtBasic, StmtNone, StmtWide})

NextWide ==
  \/ Fresh /\ NormalizeValues
  \/ Fresh /\ Serialize
  \/ Fresh /\ ValueListSerialize
  \/ Fresh /\ AddRow
  \/ Fresh /\ GetContent
  \/ Fresh /\ ExecuteUnpagedPython

SpecWide == InitWide /\ [][NextWide]_vars

-----------------------------------------------------------------------------
(* Properties.  The cells of a byte string, for reading back what was      *)
(* written: a cell is a big-endian signed length of four bytes and, when   *)
(* the length is not negative, that many bytes.                            *)

unpack_len(b) == ((IF b[1] >= 128 THEN b[1] - 256 ELSE b[1]) * 256 + b[2]) * 65536
                 + b[3] * 256 + b[4]

\* the cells of bytes: the length and the body of each; a last cell of
\* length -2 stands for bytes that are no cell
RECURSIVE Cells(_)
Cells(bytes) ==
  IF bytes = <<>> THEN <<>>
  ELSE IF Len(bytes) < 4 THEN << [len |-> -2, body |-> bytes] >>
  ELSE LET n == unpack_len(bytes)
       IN  IF n < 0 THEN << [len |-> n, body |-> <<>>] >> \o Cells(SubSeq(bytes, 5, Len(bytes)))
           ELSE IF Len(bytes) < 4 + n THEN << [len |-> -2, body |-> bytes] >>
           ELSE << [len |-> n, body |-> SubSeq(bytes, 5, 4 + n)] >>
                \o Cells(SubSeq(bytes, 5 + n, Len(bytes)))

NullCell == <<255, 255, 255, 255>>

\* the positions in the log of the last call of the events on writer w
EventsOn(w) == {j \in 1..Len(last.log) : last.log[j].w = w}

\* the values the last call was given, as a list
Normalized == normalize_values(prepared, bundle).ret

\* C1: a value that is None, at the top level of a row or inside a
\* collection, tuple or UDT, becomes exactly one null cell (the length -1
\* and no body): on its cell writer set_null is called once, and
\* serialize_value, set_value and into_value_builder are never called;
\* the concatenating encoder writes the same four bytes for it
C1_NoneIsOneNullCell ==
  /\ \A k \in 1..Len(last.log) :
       (last.log[k].op = "serialize" /\ last.log[k].none) =>
         /\ k < Len(last.log)
         /\ last.log[k + 1].op = "set_null"
         /\ last.log[k + 1].w = last.log[k].w
         /\ \A j \in EventsOn(last.log[k].w) :
              /\ last.log[j].op \in {"make_cell_writer", "make_sub_writer",
                                     "create_serializer_from_col_type", "serialize",
                                     "set_null"}
              /\ last.log[j].op = "set_null" => j = k + 1
         /\ k + 2 <= Len(last.log) => last.log[k + 2].pos = last.log[k].pos + 4
         /\ last.op = "add_row" =>
              SubSeq(last.ret, last.log[k].pos + 1, last.log[k].pos + 4) = NullCell
  /\ (last.op = "serialize" /\ last.ok) =>
       /\ Len(Cells(last.ret)) = Len(Normalized)
       /\ \A i \in 1..Len(Normalized) :
            Normalized[i] = NoneV => Cells(last.ret)[i] = [len |-> -1, body |-> <<>>]

\* a row with None at the top level and None inside a collection was added
C1_Witness ==
  /\ last.op = "add_row" /\ last.ok
  /\ \E k, j \in 1..Len(last.log) :
       /\ last.log[k].op = "serialize" /\ last.log[k].none
       /\ last.log[j].op = "make_sub_writer" /\ last.log[j].w = last.log[k].w
  /\ \E k, j \in 1..Len(last.log) :
       /\ last.log[k].op = "serialize" /\ last.log[k].none
       /\ last.log[j].op = "make_cell_writer" /\ last.log[j].w = last.log[k].w

\* the bundle is an ordered sequence of another length than the statement
WrongLength == bundle.kind \in {"list", "tuple"} /\ Len(bundle.items) # Len(prepared)

\* C2: an ordered sequence whose length differs from the number of columns
\* is rejected by the length check of add_row, of execute_unpaged_python,
\* of serialize and of ValueList.serialize: the call raises, no cell writer
\* was created, no serializer was asked for, and the buffer holds what it
\* held before the call
C2_WrongLengthWritesNothing ==
  [][(WrongLength' /\ last'.op \in {"add_row", "execute_unpaged_python", "serialize",
                                    "ValueList.serialize"}) =>
       /\ ~last'.ok
       /\ last'.exc.what =
            (IF last'.op \in {"add_row", "execute_unpaged_python"}
               THEN "Wrong length" ELSE "Value count mismatch")
       /\ last'.log = <<>>
       /\ last'.count = 0
       /\ sv'.obj.buffer = sv.obj.buffer
       /\ last'.ret = (IF last'.op = "add_row" THEN sv.obj.buffer.bytes ELSE <<>>)]_vars

\* add_row was given too many values for an object that holds a row
C2_Witness ==
  /\ WrongLength /\ Len(bundle.items) > Len(prepared)
  /\ last.op = "add_row" /\ ~last.ok
  /\ sv.obj.buffer.element_count > 0 /\ sv.obj.buffer.bytes # <<>>

\* the columns (1-based) whose name is no key of the mapping the bundle is
MissingColumns ==
  {i \in 1..Len(prepared) :
     \A j \in 1..Len(bundle.items) : bundle.items[j][1] # StrV(prepared[i].name)}

\* C3: for a bundle that is a mapping, _normalize_values returns, for each
\* column in the order of the statement, the value stored under the name of
\* the column, whatever the order of the keys and whatever other keys there
\* are; when a column name is no key it raises an error that names the
\* first such column and returns no list, and execute_unpaged_python then
\* raises without a call on a writer or a serializer
C3_MappingInColumnOrder ==
  /\ (bundle.kind = "dict" /\ last.op = "_normalize_values") =>
       IF MissingColumns = {}
         THEN /\ last.ok
              /\ Len(last.ret) = Len(prepared)
              /\ \A i \in 1..Len(prepared) :
                   \E j \in 1..Len(bundle.items) :
                     /\ bundle.items[j][1] = StrV(prepared[i].name)
                     /\ bundle.items[j][2] = last.ret[i]
         ELSE /\ ~last.ok
              /\ last.ret = <<>>
              /\ last.exc.cls = "RuntimeError"
              /\ \E i \in MissingColumns :
                   /\ \A k \in MissingColumns : i <= k
                   /\ last.exc.name = {prepared[i].name}
  /\ (bundle.kind = "dict" /\ last.op = "execute_unpaged_python" /\ MissingColumns # {}) =>
       /\ ~last.ok
       /\ last.log = <<>>
       /\ last.ret = <<>>
       /\ \E i \in MissingColumns : last.exc.name = {prepared[i].name}

\* a mapping with its keys in another order than the columns, and with a
\* key that is no column, was normalized
C3_Witness ==
  /\ bundle.kind = "dict" /\ last.op = "_normalize_values" /\ last.ok
  /\ Len(prepared) >= 2
  /\ Len(bundle.items) > Len(prepared)
  /\ bundle.items[1][1] # StrV(prepared[1].name)
  /\ last.ret[1] # last.ret[2]

\* the bundle is an ordered sequence with one value for each column
RowGiven == bundle.kind \in {"list", "tuple"} /\ Len(bundle.items) = Len(prepared)

\* the columns (1-based) of a user-defined type
UdtColumns == {i \in 1..Len(prepared) : prepared[i].typ.k = "udt"}

\* the position in the log of the last call of the first event op on
\* writer w, 0 when there is none
At(op, w) ==
  LET S == {j \in 1..Len(last.log) : last.log[j].op = op /\ last.log[j].w = w}
  IN  IF S = {} THEN 0 ELSE CHOOSE j \in S : \A k \in S : j <= k

\* the position in the log of the request for the serializer of column i
\* (1-based), 0 when the loop did not come to the column
Reached(i) ==
  LET S == {j \in 1..Len(last.log) :
              /\ last.log[j].op = "create_serializer_from_col_type"
              /\ last.log[j].of = i - 1}
  IN  IF S = {} THEN 0 ELSE CHOOSE j \in S : TRUE

\* the cell of value v for a column of type typ in a buffer of its own
CellAlone(typ, v) ==
  LET s == create_serializer_from_col_type(typ)
      r == TypeSerializer_serialize(s.ser, v, 0, PyRowWriter(SerializationBuffer))
  IN  IF ~s.ok THEN [ok |-> FALSE, bytes |-> <<>>, what |-> s.exc.what]
      ELSE IF ~r.ok THEN [ok |-> FALSE, bytes |-> <<>>, what |-> r.exc.what]
      ELSE [ok |-> TRUE, bytes |-> r.W.buf, what |-> ""]

RECURSIVE Flatten(_)
Flatten(ss) == IF ss = <<>> THEN <<>> ELSE Head(ss) \o Flatten(Tail(ss))

\* the keys of a mapping at which name is stored
KeysAt(items, name) == {j \in 1..Len(items) : items[j][1] = StrV(name)}

\* the cell expected for field m of the type fields in the mapping items:
\* the null cell when the field is no key, the cell of its value otherwise
FieldCell(fields, items, m) ==
  IF KeysAt(items, fields[m][1]) = {}
    THEN [ok |-> TRUE, bytes |-> NullCell, what |-> ""]
  ELSE CellAlone(fields[m][2],
                 items[CHOOSE j \in KeysAt(items, fields[m][1]) : TRUE][2])

\* C4: UDTSerializer.serialize_value of scylla/serializer.py, given a
\* mapping that omits declared fields, raises nothing for the omission: the
\* cell of the UDT is written when every supplied field can be encoded, and
\* its body is, field by field in declared order, the null cell (length -1)
\* for an omitted field and the length-prefixed cell of the value for a
\* supplied one
C4_OmittedFieldIsNull ==
  (last.op = "add_row" /\ RowGiven) =>
    \A i \in UdtColumns :
      (bundle.items[i].kind = "dict" /\ Reached(i) # 0) =>
        LET fields == prepared[i].typ.field_types
            items == bundle.items[i].items
            cw == last.log[Reached(i)].w
            start == At("into_value_builder", cw)
            end == At("finish", cw)
            body == Flatten([m \in 1..Len(fields) |-> FieldCell(fields, items, m).bytes])
        IN  /\ start # 0
            /\ last.exc.what \notin {"UDT missing field", "UDT missing required field"}
            /\ IF \A m \in 1..Len(fields) : FieldCell(fields, items, m).ok
                 THEN /\ end # 0
                      /\ SubSeq(last.ret, last.log[start].pos + 1, last.log[end].pos)
                           = pack_len(Len(body)) \o body
                      /\ i = Len(prepared) => last.ok
                 ELSE ~last.ok /\ end = 0

\* a row was added whose UDT value is a mapping with some of the declared
\* fields and not all of them
C4_Witness ==
  /\ last.op = "add_row" /\ last.ok /\ RowGiven
  /\ \E i \in UdtColumns :
       /\ bundle.items[i].kind = "dict"
       /\ bundle.items[i].items # <<>>
       /\ \E m \in 1..Len(prepared[i].typ.field_types) :
            KeysAt(bundle.items[i].items, prepared[i].typ.field_types[m][1]) = {}

\* the sub-writers made by the builder of cell writer w, in the order of
\* their making
SubWriters(w) ==
  SelectSeq(last.log, LAMBDA e : e.op = "make_sub_writer" /\ e.of = w)

\* the number of bytes of the first n cells of a sequence of cells
RECURSIVE CellsSize(_, _)
CellsSize(cells, n) ==
  IF n = 0 THEN 0
  ELSE CellsSize(cells, n - 1) + 4 + (IF cells[n].len < 0 THEN 0 ELSE cells[n].len)

\* C5: the body of a UDT cell that was written for a mapping is exactly one
\* sub-cell per declared field, each from a sub-writer of its own, and the
\* m-th sub-cell is the cell of the value stored under the name of the m-th
\* declared field (the null cell when there is none), whatever the order of
\* the keys of the mapping and whatever keys it has that are no fields
C5_SubCellsInDeclaredOrder ==
  (last.op \in {"add_row", "execute_unpaged_python"} /\ RowGiven) =>
    \A i \in UdtColumns :
      (/\ bundle.items[i].kind = "dict"
       /\ Reached(i) # 0
       /\ At("finish", last.log[Reached(i)].w) # 0
       /\ last.op = "execute_unpaged_python" => last.ok) =>
        LET fields == prepared[i].typ.field_types
            items == bundle.items[i].items
            cw == last.log[Reached(i)].w
            first == last.log[At("into_value_builder", cw)].pos + 4
            cells == Cells(SubSeq(last.ret, first + 1, last.log[At("finish", cw)].pos))
            subs == SubWriters(cw)
        IN  /\ Len(cells) = Len(fields)
            /\ Len(subs) = Len(fields)
            /\ \A m \in 1..Len(fields) :
                 /\ cells[m].len >= -1
                 /\ pack_len(cells[m].len) \o cells[m].body
                      = FieldCell(fields, items, m).bytes
                 /\ subs[m].pos = first + CellsSize(cells, m - 1)
                 /\ \A n \in 1..Len(fields) : subs[m].w = subs[n].w => m = n

\* a row was added whose UDT value is a mapping with the fields in another
\* order than declared and with a key that is no field
C5_Witness ==
  /\ last.op = "add_row" /\ last.ok /\ RowGiven
  /\ \E i \in UdtColumns :
       /\ bundle.items[i].kind = "dict"
       /\ Len(bundle.items[i].items) > Len(prepared[i].typ.field_types)
       /\ bundle.items[i].items[1][1] # StrV(prepared[i].typ.field_types[1][1])
       /\ \A m \in 1..Len(prepared[i].typ.field_types) :
            KeysAt(bundle.items[i].items, prepared[i].typ.field_types[m][1]) # {}

\* the integers of 32 and of 64 bits, by their limbs: the upper limbs of an
\* integer of 32 bits are its sign; the top limb of one of 64 bits is one
\* of 16 bits
InInt32(v) ==
  \/ v[1] = 0 /\ v[2] = 0 /\ v[3] < 32768
  \/ v[1] = -1 /\ v[2] = 65535 /\ v[3] >= 32768
InInt64(v) == v[1] >= -32768 /\ v[1] <= 32767

\* the bytes of a limb, and the big-endian two's complement of an integer
\* in 4 and in 8 bytes
LimbBytes(l) == <<((l + 65536) % 65536) \div 256, l % 256>>
TwosComplement4(v) == LimbBytes(v[3]) \o LimbBytes(v[4])
TwosComplement8(v) == LimbBytes(v[1]) \o LimbBytes(v[2]) \o TwosComplement4(v)

\* the columns (1-based) of type Int and of type BigInt
IntColumns(name) ==
  {i \in 1..Len(prepared) : prepared[i].typ = [k |-> "native", name |-> name]}

\* C6: for a column of type Int (BigInt) that add_row comes to with a
\* Python int, the call fails with "Int32 overflow" ("Int64 overflow"),
\* set_value is not called on the cell writer and nothing is written for
\* the cell when the integer is outside [-2^31, 2^31 - 1] ([-2^63,
\* 2^63 - 1]); inside the range, both ends and zero among them, set_value
\* is called once with the 4 (8) bytes of its big-endian two's complement
C6_IntegerRange ==
  (last.op = "add_row" /\ RowGiven) =>
    \A i \in IntColumns("Int") \cup IntColumns("BigInt") :
      (bundle.items[i].kind = "int" /\ Reached(i) # 0) =>
        LET v == bundle.items[i].v
            narrow == i \in IntColumns("Int")
            cw == last.log[Reached(i)].w
            at == last.log[Reached(i)].pos
            set == {j \in EventsOn(cw) : last.log[j].op = "set_value"}
            bytes == IF narrow THEN TwosComplement4(v) ELSE TwosComplement8(v)
        IN  IF (narrow /\ InInt32(v)) \/ (~narrow /\ InInt64(v))
              THEN /\ Cardinality(set) = 1
                   /\ SubSeq(last.ret, at + 1, at + 4 + Len(bytes))
                        = <<0, 0, 0, Len(bytes)>> \o bytes
                   /\ i = Len(prepared) => last.ok
              ELSE /\ ~last.ok
                   /\ last.exc.what = (IF narrow THEN "Int32 overflow" ELSE "Int64 overflow")
                   /\ set = {}
                   /\ Len(last.ret) = at

\* 2^31 was given for a column of type Int of an object that holds a row
\* with -2^31 in that column
C6_Witness ==
  /\ last.op = "add_row" /\ ~last.ok /\ RowGiven
  /\ last.exc.what = "Int32 overflow"
  /\ 1 \in IntColumns("Int") /\ bundle.items[1] = BigV(TwoPow31)
  /\ sv.obj.buffer.element_count > 0
  /\ SubSeq(last.ret, 1, 8) = <<0, 0, 0, 4, 128, 0, 0, 0>>

\* C7: after a row fails at a column, what was written before the failure
\* is not given to the caller: serialize, ValueList.serialize and
\* execute_unpaged_python return no bytes and no count when they raise,
\* and get_content() called after an add_row that raised returns a buffer
\* that ends where the failed row began
C7_FailedRowNotExposed ==
  [][/\ (last'.op \in {"serialize", "ValueList.serialize", "execute_unpaged_python"}
         /\ ~last'.ok) => (last'.ret = <<>> /\ last'.count = 0)
     /\ (last.op = "add_row" /\ ~last.ok /\ last.log # <<>> /\ last'.op = "get_content")
          => Len(last'.ret) <= last.log[1].pos]_vars

\* get_content() returned the cell of the first column of a row whose
\* second column was refused, with no row counted
C7_Witness ==
  /\ last.op = "get_content"
  /\ prepared = StmtUdt /\ bundle = ListV(<<IntV(1), IntV(3)>>)
  /\ sv.rows = 1
  /\ last.ret = <<0, 0, 0, 4, 0, 0, 0, 1>>
  /\ last.count = 0

\* the last call was given one value for each of one or more columns and
\* raised: it raised in its loop over the columns
RaisedInLoop ==
  /\ ~last.ok
  /\ normalize_values(prepared, bundle).ok
  /\ Len(Normalized) = Len(prepared)
  /\ Len(prepared) > 0
  /\ Len(prepared) <= 65535

\* C8: an error raised for a column in the loop of add_row, of serialize
\* and of ValueList.serialize reaches the caller with the 0-based index
\* and the name of a column of the statement in its message
C8_ErrorNamesColumn ==
  (last.op \in {"add_row", "serialize", "ValueList.serialize"} /\ RaisedInLoop) =>
    \E k \in 1..Len(prepared) :
      last.exc.index = {k - 1} /\ last.exc.name = {prepared[k].name}

\* add_row raised "Int32 overflow" for the first column with neither an
\* index nor a name in the error
C8_Witness ==
  /\ last.op = "add_row" /\ RaisedInLoop
  /\ last.exc.what = "Int32 overflow"
  /\ last.exc.index = {} /\ last.exc.name = {}

\* the last call was given one value for each of one or more columns
OneValuePerColumn ==
  /\ normalize_values(prepared, bundle).ok
  /\ Len(Normalized) = Len(prepared)
  /\ Len(prepared) > 0
  /\ Len(prepared) <= 65535

\* the first (1-based) of the columns in S, 0 when S is empty
First(S) == IF S = {} THEN 0 ELSE CHOOSE i \in S : \A j \in S : i <= j

\* the first column whose value the streaming encoder refuses when it is
\* given the value alone, and the first the concatenating encoder refuses
FirstRefused ==
  First({i \in 1..Len(prepared) : ~CellAlone(prepared[i].typ, Normalized[i]).ok})
FirstRefusedRaw ==
  First({i \in 1..Len(prepared) :
           ~serialize_column(Normalized[i], columns_of(prepared)[i], i - 1).ok})

\* the events op of the log of the last call, in their order
Events(op) == SelectSeq(last.log, LAMBDA e : e.op = op)

\* C9: add_row and serialize stop at the first column that fails: when
\* column k (0-based) is the first whose value is refused, the call raises
\* the error of that column, a cell writer was obtained and a serializer
\* asked for exactly for the columns 0..k in their order, and serialize
\* was invoked at most once for each of them; when no column is refused
\* the call returns
C9_StopsAtFirstFailure ==
  /\ (last.op = "add_row" /\ OneValuePerColumn) =>
       IF FirstRefused = 0
         THEN last.ok /\ Len(Events("make_cell_writer")) = Len(prepared)
         ELSE /\ ~last.ok
              /\ last.exc.what = CellAlone(prepared[FirstRefused].typ,
                                           Normalized[FirstRefused]).what
              /\ last.count = FirstRefused
              /\ Len(Events("make_cell_writer")) = FirstRefused
              /\ Len(Events("create_serializer_from_col_type")) = FirstRefused
              /\ \A j \in 1..FirstRefused :
                   /\ Events("create_serializer_from_col_type")[j].of = j - 1
                   /\ Events("create_serializer_from_col_type")[j].w
                        = Events("make_cell_writer")[j].w
              /\ Cardinality({j \in 1..Len(last.log) :
                                /\ last.log[j].op = "serialize"
                                /\ \E c \in 1..FirstRefused :
                                     last.log[j].w = Events("make_cell_writer")[c].w})
                   <= FirstRefused
  /\ (last.op = "serialize" /\ OneValuePerColumn) =>
       IF FirstRefusedRaw = 0 THEN last.ok
         ELSE /\ ~last.ok
              /\ last.exc.index = {FirstRefusedRaw - 1}
              /\ last.exc.what
                   = serialize_column(Normalized[FirstRefusedRaw],
                                      columns_of(prepared)[FirstRefusedRaw],
                                      FirstRefusedRaw - 1).exc.what
              /\ Len(last.log) = FirstRefusedRaw
              /\ \A j \in 1..Len(last.log) : last.log[j].of = j - 1

\* add_row raised for the first of two columns that both refuse their
\* value
C9_Witness ==
  /\ last.op = "add_row" /\ ~last.ok /\ OneValuePerColumn
  /\ Len(prepared) >= 2
  /\ FirstRefused = 1
  /\ ~CellAlone(prepared[2].typ, Normalized[2]).ok

Encoders == {"add_row", "execute_unpaged_python", "serialize", "ValueList.serialize"}

\* C10: when an encoder returns, the element count it hands on (the count
\* set on the buffer, the second member of the pair) is the number of
\* top-level cells of the bytes and the number of columns; for a row of
\* more than 65535 columns every encoder raises, no count is set on the
\* buffer and none is returned
C10_ElementCount ==
  /\ (last.op \in Encoders /\ last.ok /\ Len(prepared) <= 65535 /\ sv.rows <= 1) =>
       /\ last.count = Len(prepared)
       /\ Len(Cells(last.ret)) = Len(prepared)
       /\ last.op = "add_row" => sv.obj.buffer.element_count = Len(prepared)
  /\ (/\ last.op \in Encoders
      /\ Len(prepared) > 65535
      /\ bundle.kind \in {"list", "tuple"}
      /\ Len(bundle.items) = Len(prepared)) =>
       /\ ~last.ok
       /\ sv.obj.buffer.element_count = 0
       /\ last.op # "add_row" => last.count = 0

\* serialize returned a count that is no unsigned integer of 16 bits
C10_Witness ==
  /\ last.op = "serialize" /\ last.ok
  /\ Len(prepared) > 65535
  /\ last.count = Len(prepared)
  /\ last.size = 8 * Len(prepared)

\* the bytes of a row of values for the columns of stmt, each cell written
\* into a buffer of its own
RowAlone(stmt, vals) ==
  Flatten([i \in 1..Len(stmt) |-> CellAlone(stmt[i].typ, vals[i]).bytes])

\* C11: a call of add_row writes into a buffer that holds nothing of an
\* earlier call: the first cell writer of the call starts at the beginning
\* of the buffer, and the content after the call is the cells of this row
\* and nothing else, whatever rows were added to the object before
C11_FreshBufferPerRow ==
  (last.op = "add_row" /\ last.ok) =>
    /\ last.log[1].pos = 0
    /\ last.ret = RowAlone(prepared, Normalized)

\* C14: a list returned by _normalize_values has one entry for each column
\* of the statement, whatever the bundle is; a value that is no sequence,
\* mapping or record is wrapped in a list only for a statement of one
\* column, and otherwise the call raises
C14_OneEntryPerColumn ==
  (last.op = "_normalize_values" /\ last.ok) =>
    /\ Len(last.ret) = Len(prepared)
    /\ bundle.kind \notin {"list", "tuple", "dict", "object"} => Len(prepared) = 1

\* the count and the cells of the body of a list cell
ListBody(body) ==
  [count |-> IF Len(body) < 4 THEN -1 ELSE unpack_len(body),
   cells |-> IF Len(body) < 4 THEN <<>> ELSE Cells(SubSeq(body, 5, Len(body)))]

\* a list of lists of integers of 32 bits
ListOfIntLists(v) ==
  /\ v.kind = "list"
  /\ BigLE(py_len(v), INT32_MAX)
  /\ \A i \in 1..Len(v.items) :
       /\ v.items[i].kind = "list"
       /\ \A j \in 1..Len(v.items[i].items) :
            v.items[i].items[j].kind = "int" /\ InInt32(v.items[i].items[j].v)

\* the statement has the one column list<frozen<list<int>>> and is given a
\* list of lists of integers for it
NestedListGiven ==
  prepared = StmtList /\ RowGiven /\ sv.rows <= 1 /\ ListOfIntLists(bundle.items[1])

\* C15: a list of lists given for a column list<frozen<list<int>>> is
\* encoded by every encoder as one cell whose body is the count of the
\* outer elements and one cell for each of them, the body of each being
\* the count of the inner list and a cell of four bytes for each integer;
\* the frozen inner list type is accepted
C15_NestedLists ==
  (NestedListGiven /\ last.op \in Encoders) =>
    /\ last.ok
    /\ Len(Cells(last.ret)) = 1
    /\ LET v == bundle.items[1]
           outer == ListBody(Cells(last.ret)[1].body)
       IN  /\ outer.count = Len(v.items)
           /\ Len(outer.cells) = Len(v.items)
           /\ \A i \in 1..Len(v.items) :
                LET inner == ListBody(outer.cells[i].body)
                IN  /\ inner.count = Len(v.items[i].items)
                    /\ Len(inner.cells) = Len(v.items[i].items)
                    /\ \A j \in 1..Len(v.items[i].items) :
                         inner.cells[j] =
                           [len |-> 4, body |-> TwosComplement4(v.items[i].items[j].v)]

\* the kind of Python value a native column type is declared for
ExpectedKind(name) ==
  CASE name \in {"Int", "BigInt"} -> "int"
    [] name \in {"Double", "Float"} -> "float"
    [] name = "Boolean" -> "bool"
    [] name = "Text" -> "str"
    [] OTHER -> "none"

\* the columns of a native type that has an expected kind of value
NativeColumns ==
  {i \in 1..Len(prepared) :
     /\ prepared[i].typ.k = "native"
     /\ ExpectedKind(prepared[i].typ.name) # "none"}

\* C16: when add_row comes to a column of type Int, BigInt, Double, Float,
\* Boolean or Text with a value that is not None and not of the kind the
\* type is declared for, the call fails and set_value is not called on the
\* cell writer of the column: the value is never coerced
C16_ExactKind ==
  (last.op = "add_row" /\ RowGiven) =>
    \A i \in NativeColumns :
      (/\ Reached(i) # 0
       /\ bundle.items[i].kind \notin {"none", ExpectedKind(prepared[i].typ.name)}) =>
        /\ ~last.ok
        /\ At("set_value", last.log[Reached(i)].w) = 0

\* the columns of a tuple type
TupleColumns == {i \in 1..Len(prepared) : prepared[i].typ.k = "tuple"}

\* the position in the log at which the call asked for the serializer of
\* column i, or 0 when it did not come to the column
AskedFor(i) ==
  First({j \in 1..Len(last.log) :
           /\ last.log[j].op \in {"create_serializer_from_col_type",
                                  "create_serializer_from_type_spec"}
           /\ last.log[j].of = i - 1})

\* the sub-cells of a tuple: the j-th written by the serializer of the j-th
\* declared element type, each on its own
TupleBody(types, items) ==
  Flatten([j \in 1..Len(types) |-> CellAlone(types[j], items[j]).bytes])

\* C17: when add_row or serialize comes to a tuple column with a list or
\* tuple whose length is not the number of declared element types, the
\* call fails with "Tuple length mismatch", into_value_builder is not
\* called, no sub-writer is made and nothing is written for the cell; when
\* the lengths are equal and every element is accepted by the serializer
\* of its own position, the cell is the sub-cells in declared order, the
\* j-th written by the j-th element serializer, and when one is refused
\* the call fails
C17_TupleLength ==
  (last.op \in {"add_row", "serialize"} /\ RowGiven) =>
    \A i \in TupleColumns :
      (bundle.items[i].kind \in {"list", "tuple"} /\ AskedFor(i) # 0) =>
        LET types == prepared[i].typ.element_types
            items == bundle.items[i].items
            streaming == last.op = "add_row"
            cw == last.log[AskedFor(i)].w
            at == last.log[AskedFor(i)].pos
            body == TupleBody(types, items)
            cell == pack_i(Big(Len(body))).bytes \o body
        IN  IF Len(items) # Len(types)
              THEN /\ ~last.ok
                   /\ last.exc.what = "Tuple length mismatch"
                   /\ At("into_value_builder", cw) = 0
                   /\ SubWriters(cw) = <<>>
                   /\ IF streaming THEN Len(last.ret) = at ELSE last.ret = <<>>
            ELSE IF \A j \in 1..Len(types) : CellAlone(types[j], items[j]).ok
              THEN IF streaming
                     THEN SubSeq(last.ret, at + 1, at + Len(cell)) = cell
                     ELSE last.ok => Cells(last.ret)[i] = [len |-> Len(body), body |-> body]
            ELSE ~last.ok

\* add_row was given a tuple of one element, and a tuple of three, for a
\* column of type tuple<int, text>
C17_Witness ==
  /\ last.op = "add_row" /\ RowGiven /\ ~last.ok
  /\ prepared = StmtMixed
  /\ bundle.items[1].kind = "tuple"
  /\ Len(bundle.items[1].items) = 3
  /\ last.exc.what = "Tuple length mismatch"

\* the columns of a list type, and of a set type
ListColumns ==
  {i \in 1..Len(prepared) :
     prepared[i].typ.k = "collection" /\ prepared[i].typ.name = "List"}
SetColumns ==
  {i \in 1..Len(prepared) :
     prepared[i].typ.k = "collection" /\ prepared[i].typ.name = "Set"}

\* C18: when add_row or serialize comes to a list column with a Python
\* tuple, the call fails
C18_ListRejectsTuple ==
  (last.op \in {"add_row", "serialize"} /\ RowGiven) =>
    \A i \in ListColumns :
      (bundle.items[i].kind = "tuple" /\ AskedFor(i) # 0) => ~last.ok

\* C19: when add_row or serialize comes to a tuple column with a Python
\* list, the call fails, whatever the length of the list
C19_TupleRejectsList ==
  (last.op \in {"add_row", "serialize"} /\ RowGiven) =>
    \A i \in TupleColumns :
      (bundle.items[i].kind = "list" /\ AskedFor(i) # 0) => ~last.ok

\* C20: when add_row or serialize comes to a set column with a dict, the
\* call fails with "Expected set/list/tuple", into_value_builder is not
\* called, no sub-writer is made for a key or a value of the dict and
\* nothing is written for the cell
C20_SetRejectsDict ==
  (last.op \in {"add_row", "serialize"} /\ RowGiven) =>
    \A i \in SetColumns :
      (bundle.items[i].kind = "dict" /\ AskedFor(i) # 0) =>
        LET cw == last.log[AskedFor(i)].w
            at == last.log[AskedFor(i)].pos
        IN  /\ ~last.ok
            /\ last.exc.what = "Expected set/list/tuple"
            /\ At("into_value_builder", cw) = 0
            /\ SubWriters(cw) = <<>>
            /\ IF last.op = "add_row" THEN Len(last.ret) = at ELSE last.ret = <<>>

\* add_row came to the set column of a row with a dict of one item, after
\* it had written the cells of the columns before it
C20_Witness ==
  /\ last.op = "add_row" /\ RowGiven /\ ~last.ok
  /\ \E i \in SetColumns :
       /\ bundle.items[i].kind = "dict"
       /\ Len(bundle.items[i].items) = 1
       /\ AskedFor(i) # 0
       /\ last.log[AskedFor(i)].pos > 0

-----------------------------------------------------------------------------
(* Concurrent callers of one prepared statement: coroutines of             *)
(* execute_unpaged_python, which run from their first line to the await    *)
(* of _execute_raw_bytes without a suspension point, and calls of          *)
(* serialize, while another caller adds rows to a SerializedValues object  *)
(* of its own.                                                             *)

\* the calls that can be outstanding at a time
MaxTasks == 2

\* the statements the callers share
TaskStatements == {StmtBasic, StmtUdt}

\* the bundles the callers give: a row as a list, the same row as a dict
\* with its keys in reverse column order, another row, and a row whose
\* first column is refused
TaskBundles(stmt) ==
  {ListV(SampleRow(stmt)),
   AsDict(stmt, SampleRow(stmt), [i \in 1..Len(stmt) |-> Len(stmt) + 1 - i], {}, FALSE),
   ListV(<<IntV(-1), NoneV>>),
   ListV(<<BigV(TwoPow31), NoneV>>)}

\* a call of op with values: pc is "called" for a coroutine that has not
\* run yet, "awaiting" at the await of _execute_raw_bytes, "done" when the
\* call has returned or raised; after is the number of rows the other
\* caller had added to its object when the call encoded its row; raised is
\* the class of the exception the call raised, if any
Task(op, values, pc, ok, raised, data, count) ==
  [op |-> op, values |-> values, pc |-> pc, ok |-> ok, raised |-> raised, data |-> data,
   count |-> count, after |-> sv.rows]

InitTasks ==
  /\ \E s \in TaskStatements : statement = Packed(s)
  /\ given = PackedValue(ListV(SampleRow(Unpacked(statement))))
  /\ sv = [obj |-> SerializedValues_init(prepared), rows |-> 0]
  /\ last = Call("prepare", TRUE, NoExc, <<>>, 0, <<>>)
  /\ tasks = <<>>

\* session.execute_unpaged_python(prepared, b) is called: the coroutine is
\* created and has not run yet
CallExecuteUnpagedPython ==
  /\ Len(tasks) < MaxTasks
  /\ \E b \in TaskBundles(prepared) :
       tasks' = Append(tasks, Task("execute_unpaged_python", PackedValue(b), "called",
                                   TRUE, "", <<>>, 0))
  /\ UNCHANGED <<statement, given, sv, last>>

\* coroutine i runs from its first line to the await of _execute_raw_bytes,
\* or to the exception _normalize_values or add_row raises
RunToAwait(i) ==
  /\ tasks[i].pc = "called"
  /\ \E r \in {execute_unpaged_python(prepared, UnpackedValue(tasks[i].values))} :
       tasks' = [tasks EXCEPT ![i] =
                   Task(@.op, @.values, IF r.ok THEN "awaiting" ELSE "done", r.ok,
                        r.exc.cls, r.data.bytes, r.data.element_count)]
  /\ UNCHANGED <<statement, given, sv, last>>

\* the request of coroutine i is answered and the coroutine returns
Complete(i) ==
  /\ tasks[i].pc = "awaiting"
  /\ tasks' = [tasks EXCEPT ![i].pc = "done"]
  /\ UNCHANGED <<statement, given, sv, last>>

\* serialize(_normalize_values(prepared, b), prepared) is called and
\* returns or raises
CallSerialize ==
  /\ Len(tasks) < MaxTasks
  /\ \E b \in TaskBundles(prepared) :
       \E n \in {normalize_values(prepared, b)} :
         IF ~n.ok
           THEN tasks' = Append(tasks, Task("serialize", PackedValue(b), "done", FALSE,
                                            n.exc.cls, <<>>, 0))
         ELSE \E r \in {serialize(n.ret, prepared)} :
                tasks' = Append(tasks, Task("serialize", PackedValue(b), "done", r.ok,
                                            r.exc.cls, r.bytes, r.count))
  /\ UNCHANGED <<statement, given, sv, last>>

NextTasks ==
  \/ AddRow
  \/ CallExecuteUnpagedPython
  \/ CallSerialize
  \/ \E i \in 1..Len(tasks) : RunToAwait(i)
  \/ \E i \in 1..Len(tasks) : Complete(i)

SpecTasks == InitTasks /\ [][NextTasks]_vars

\* the calls that have encoded their row
Encoded == {i \in 1..Len(tasks) : tasks[i].pc # "called"}

TaskRow(i) == normalize_values(prepared, UnpackedValue(tasks[i].values))

\* C13: a coroutine of execute_unpaged_python that has run to its await
\* holds the payload its values give when they are encoded alone (the
\* cells of its row, each written into an empty buffer, and one element
\* for each column), whatever the other callers did before, between and
\* after; it has failed, with no payload, exactly when its values cannot
\* be aligned with the columns or one of them is refused by the
\* serializer of its column; and the order in which coroutines return is
\* not bound to the order in which they encoded
C13_PayloadAsAlone ==
  \A i \in Encoded :
    tasks[i].op = "execute_unpaged_python" =>
      LET n == TaskRow(i)
          accepted == /\ n.ok
                      /\ Len(n.ret) = Len(prepared)
                      /\ \A c \in 1..Len(prepared) : CellAlone(prepared[c].typ, n.ret[c]).ok
      IN  /\ tasks[i].ok = accepted
          /\ tasks[i].ok =>
                /\ tasks[i].data = RowAlone(prepared, n.ret)
                /\ tasks[i].count = Len(prepared)
          /\ ~tasks[i].ok => tasks[i].pc = "done" /\ tasks[i].data = <<>>

\* two coroutines encoded different rows, the first before and the second
\* after the other caller added a row to its object, and the second has
\* returned while the first is still at its await
C13_Witness ==
  /\ Len(tasks) = 2
  /\ tasks[1].op = "execute_unpaged_python" /\ tasks[2].op = "execute_unpaged_python"
  /\ tasks[1].pc = "awaiting" /\ tasks[2].pc = "done"
  /\ tasks[1].ok /\ tasks[2].ok
  /\ tasks[1].data # tasks[2].data
  /\ tasks[1].after < tasks[2].after

\* the elements iterating over a value gives, as many as the value holds:
\* the items of a set, list or tuple, the keys of a dict, the characters
\* of a str
Iterated(v) ==
  CASE v.kind \in {"set", "list", "tuple"} -> v.items
    [] v.kind = "dict" -> [j \in 1..Len(v.items) |-> v.items[j][1]]
    [] v.kind = "str" -> [j \in 1..Len(v.s) |-> StrV(<<v.s[j]>>)]
    [] OTHER -> <<>>

\* the cell of a list or set of element type elem with the given elements:
\* the count, then the cell each element gives on its own
SequenceCell(elem, items) ==
  LET body == pack_i(Big(Len(items))).bytes
                \o Flatten([j \in 1..Len(items) |-> CellAlone(elem, items[j]).bytes])
  IN  pack_i(Big(Len(body))).bytes \o body

\* the set column i, which the call came to, is written as the cell of
\* the given elements
SetWritten(i, items) ==
  LET at == last.log[AskedFor(i)].pos
      cell == SequenceCell(prepared[i].typ.column_type, items)
  IN  IF last.op = "add_row"
        THEN /\ Len(last.ret) >= at + Len(cell)
             /\ SubSeq(last.ret, at + 1, at + Len(cell)) = cell
             /\ i = Len(prepared) => last.ok /\ Len(last.ret) = at + Len(cell)
        ELSE /\ i = Len(prepared) => last.ok
             /\ last.ok => Cells(last.ret)[i] = [len |-> Len(cell) - 4,
                                                 body |-> SubSeq(cell, 5, Len(cell))]

\* C21 as stated: whatever iterable add_row or serialize is given for a
\* set column (a set, list, tuple, dict or str), the cell holds the count
\* of the elements supplied and one cell for each of them
C21_AnyIterable ==
  (last.op \in {"add_row", "serialize"} /\ RowGiven) =>
    \A i \in SetColumns :
      (/\ bundle.items[i].kind \in {"set", "list", "tuple", "dict", "str"}
       /\ AskedFor(i) # 0) =>
        SetWritten(i, Iterated(bundle.items[i]))

\* C21: for a set column that add_row or serialize comes to with a set,
\* a list or a tuple, the cell holds the count of the elements supplied
\* and one cell for each of them in iteration order, elements equal to an
\* earlier one included (for up to 2^31 - 1 elements); any other value
\* that is not None is refused with "Expected set/list/tuple", an iterable
\* one too
C21_SetNoDedup ==
  (last.op \in {"add_row", "serialize"} /\ RowGiven) =>
    \A i \in SetColumns :
      (bundle.items[i].kind # "none" /\ AskedFor(i) # 0) =>
        IF bundle.items[i].kind \in {"set", "list", "tuple"}
          THEN (/\ BigLE(py_len(bundle.items[i]), INT32_MAX)
                /\ \A j \in 1..Len(bundle.items[i].items) :
                     CellAlone(prepared[i].typ.column_type, bundle.items[i].items[j]).ok)
               => SetWritten(i, bundle.items[i].items)
        ELSE ~last.ok /\ last.exc.what = "Expected set/list/tuple"

\* add_row wrote a list of two equal elements for a set column as a cell
\* with the count 2
C21_Witness ==
  /\ last.op = "add_row" /\ RowGiven /\ last.ok
  /\ \E i \in SetColumns :
       /\ bundle.items[i].kind = "list"
       /\ Len(bundle.items[i].items) = 2
       /\ bundle.items[i].items[1] = bundle.items[i].items[2]
       /\ AskedFor(i) # 0

\* the mapping a record stands for: what its to_dict returns when it has
\* one, and its attributes by name otherwise
RecordItems(v) ==
  IF HasToDict(v) THEN v.to_dict.items
  ELSE [j \in 1..Len(v.attrs) |-> <<StrV(v.attrs[j][1]), v.attrs[j][2]>>]

\* C22: when add_row comes to a UDT column with a record (an instance
\* with attributes), the record is read through its to_dict when it has
\* one and through its attributes otherwise; a declared field the record
\* does not have is written as a null cell and is not an error, and the
\* cell is the sub-cells of the declared fields in declared order
C22_RecordFieldAbsentIsNull ==
  (last.op = "add_row" /\ RowGiven) =>
    \A i \in UdtColumns :
      (bundle.items[i].kind = "object" /\ Reached(i) # 0) =>
        LET fields == prepared[i].typ.field_types
            items == RecordItems(bundle.items[i])
            cw == last.log[Reached(i)].w
            start == At("into_value_builder", cw)
            end == At("finish", cw)
            body == Flatten([m \in 1..Len(fields) |-> FieldCell(fields, items, m).bytes])
        IN  /\ start # 0
            /\ last.exc.what # "UDT missing field"
            /\ IF \A m \in 1..Len(fields) : FieldCell(fields, items, m).ok
                 THEN /\ end # 0
                      /\ SubSeq(last.ret, last.log[start].pos + 1, last.log[end].pos)
                           = pack_len(Len(body)) \o body
                      /\ i = Len(prepared) => last.ok
                 ELSE ~last.ok /\ end = 0

\* the part of C22 about to_dict: a record with a to_dict is written as
\* the mapping its to_dict returns, whatever attributes it has
C22_ToDictFirst ==
  (last.op = "add_row" /\ RowGiven) =>
    \A i \in UdtColumns :
      (HasToDict(bundle.items[i]) /\ Reached(i) # 0) =>
        LET fields == prepared[i].typ.field_types
            items == bundle.items[i].to_dict.items
            cw == last.log[Reached(i)].w
            start == At("into_value_builder", cw)
            end == At("finish", cw)
            body == Flatten([m \in 1..Len(fields) |-> FieldCell(fields, items, m).bytes])
        IN  (\A m \in 1..Len(fields) : FieldCell(fields, items, m).ok) =>
              /\ start # 0 /\ end # 0
              /\ SubSeq(last.ret, last.log[start].pos + 1, last.log[end].pos)
                   = pack_len(Len(body)) \o body

\* type metadata is malformed: a UDT has two fields of one name, or a
\* list, set or map lacks the type of its elements, at any depth
RECURSIVE Malformed(_)
Malformed(typ) ==
  CASE typ.k = "none" -> TRUE
    [] typ.k = "collection" /\ typ.name \in {"List", "Set"} -> Malformed(typ.column_type)
    [] typ.k = "collection" /\ typ.name = "Map" ->
         Malformed(typ.key_type) \/ Malformed(typ.value_type)
    [] typ.k = "tuple" ->
         \E i \in 1..Len(typ.element_types) : Malformed(typ.element_types[i])
    [] typ.k = "udt" ->
         \/ \E i, j \in 1..Len(typ.field_types) :
              i # j /\ typ.field_types[i][1] = typ.field_types[j][1]
         \/ \E i \in 1..Len(typ.field_types) : Malformed(typ.field_types[i][2])
    [] OTHER -> FALSE

\* C23: no serializer is built from malformed type metadata: every encoder
\* that comes to a column whose type is malformed, with a row of one value
\* for each column, fails and returns no bytes for it
C23_MalformedTypeRejected ==
  (/\ last.op \in Encoders
   /\ RowGiven
   /\ sv.rows <= 1
   /\ \E i \in 1..Len(prepared) : Malformed(prepared[i].typ)) =>
    ~last.ok

\* the columns of a map type
MapColumns ==
  {i \in 1..Len(prepared) :
     prepared[i].typ.k = "collection" /\ prepared[i].typ.name = "Map"}

\* the position in the log at which the call came to column i, or 0
CameTo(i) ==
  First({j \in 1..Len(last.log) :
           /\ last.log[j].op \in {"create_serializer_from_col_type",
                                  "create_serializer_from_type_spec", "serialize_value"}
           /\ last.log[j].of = i - 1})

\* n as four bytes, most significant first
BigEndian4(n) == <<n \div 16777216, (n \div 65536) % 256, (n \div 256) % 256, n % 256>>

\* v is a value of a kind the collection type of column i takes
CollectionGiven(i, v) ==
  \/ i \in ListColumns /\ v.kind \in {"list", "tuple"}
  \/ i \in SetColumns /\ v.kind \in {"set", "list", "tuple"}
  \/ i \in MapColumns /\ v.kind = "dict"

\* C24: when an encoder comes to a list, set or map column with a
\* collection of more than 2^31 - 1 elements, the call fails, no count and
\* no element cell is written for the collection and nothing is returned;
\* for a collection of up to 2^31 - 1 elements the count that is written
\* is the number of elements as four bytes, most significant first, and
\* 2^31 - 1 itself is packed as 7F FF FF FF
C24_CountLimit ==
  /\ pack_i(INT32_MAX) = [ok |-> TRUE, bytes |-> <<127, 255, 255, 255>>]
  /\ (last.op \in Encoders /\ RowGiven) =>
       \A i \in ListColumns \cup SetColumns \cup MapColumns :
         (CollectionGiven(i, bundle.items[i]) /\ CameTo(i) # 0) =>
           LET v == bundle.items[i]
               streaming == last.op \in {"add_row", "execute_unpaged_python"}
               cw == last.log[CameTo(i)].w
               count == At("append_bytes", cw)
           IN  IF ~BigLE(py_len(v), INT32_MAX)
                 THEN /\ ~last.ok
                      /\ streaming => count = 0 /\ SubWriters(cw) = <<>>
                      /\ ~streaming => last.ret = <<>>
               ELSE /\ (streaming /\ count # 0 /\ (last.op = "add_row" \/ last.ok)) =>
                         SubSeq(last.ret, last.log[count].pos + 1, last.log[count].pos + 4)
                           = BigEndian4(Len(v.items))
                    /\ (~streaming /\ last.ok) =>
                         SubSeq(Cells(last.ret)[i].body, 1, 4) = BigEndian4(Len(v.items))

\* add_row was given a list of 2^31 elements for a list column and raised
\* after into_value_builder
C24_Witness ==
  /\ last.op = "add_row" /\ RowGiven /\ ~last.ok
  /\ \E i \in ListColumns :
       /\ bundle.items[i].kind = "list"
       /\ py_len(bundle.items[i]) = TwoPow31
       /\ CameTo(i) # 0
       /\ At("into_value_builder", last.log[CameTo(i)].w) # 0

\* Reading bytes back as cells of the given types, one after the other:
\* each cell is a length of four bytes and, unless the length is -1, a
\* body of exactly that many bytes that reads as its type does: for a
\* native type any bytes; for a list or set a count and that many cells of
\* the element type; for a map a count and that many pairs of
\* cells; for a tuple or UDT the cells of its elements or fields.  The
\* result is whether the bytes read so and what is left after the cells.
RECURSIVE ReadCells(_, _)
ReadBody(typ, body) ==
  LET Counted(types_of(_)) ==
        /\ Len(body) >= 4
        /\ unpack_len(body) >= 0
        /\ ReadCells(types_of(unpack_len(body)), SubSeq(body, 5, Len(body)))
             = [ok |-> TRUE, rest |-> <<>>]
  IN  CASE typ.k = "native" -> TRUE
        [] typ.k = "collection" /\ typ.name \in {"List", "Set"} ->
             Counted(LAMBDA c : [j \in 1..c |-> typ.column_type])
        [] typ.k = "collection" /\ typ.name = "Map" ->
             Counted(LAMBDA c : [j \in 1..(2 * c) |->
                                   IF j % 2 = 1 THEN typ.key_type ELSE typ.value_type])
        [] typ.k = "tuple" ->
             ReadCells(typ.element_types, body) = [ok |-> TRUE, rest |-> <<>>]
        [] typ.k = "udt" ->
             ReadCells([j \in 1..Len(typ.field_types) |-> typ.field_types[j][2]], body)
               = [ok |-> TRUE, rest |-> <<>>]
        [] OTHER -> FALSE

ReadCells(types, bytes) ==
  IF types = <<>> THEN [ok |-> TRUE, rest |-> bytes]
  ELSE IF Len(bytes) < 4 THEN [ok |-> FALSE, rest |-> bytes]
  ELSE LET n == unpack_len(bytes)
       IN  IF n = -1 THEN ReadCells(Tail(types), SubSeq(bytes, 5, Len(bytes)))
           ELSE IF n < 0 \/ Len(bytes) < 4 + n THEN [ok |-> FALSE, rest |-> bytes]
           ELSE IF ~ReadBody(Head(types), SubSeq(bytes, 5, 4 + n))
             THEN [ok |-> FALSE, rest |-> bytes]
           ELSE ReadCells(Tail(types), SubSeq(bytes, 5 + n, Len(bytes)))

\* the bytes the last call wrote: for add_row what follows the rows the
\* buffer held before the call
Written ==
  IF last.op = "add_row" /\ last.log # <<>>
    THEN SubSeq(last.ret, last.log[1].pos + 1, Len(last.ret))
    ELSE last.ret

\* C25: the bytes of a row an encoder has written with success read back
\* as one cell for each column, every cell that is not null, at every
\* depth, with a length that is the number of bytes of its body, and
\* nothing is left over; in the streaming encoder the four bytes written
\* by into_value_builder hold, after finish, the number of bytes written
\* between the two calls: the count, if any, and the sub-cells with
\* their own lengths
C25_LengthPrefixes ==
  (last.op \in Encoders /\ last.ok) =>
    /\ ReadCells([i \in 1..Len(prepared) |-> prepared[i].typ], Written)
         = [ok |-> TRUE, rest |-> <<>>]
    /\ \A j \in 1..Len(last.log) :
         last.log[j].op = "into_value_builder" =>
           LET end == At("finish", last.log[j].w)
           IN  /\ end > j
               /\ Cardinality({k \in EventsOn(last.log[j].w) :
                                 last.log[k].op = "finish"}) = 1
               /\ unpack_len(SubSeq(last.ret, last.log[j].pos + 1, last.log[j].pos + 4))
                    = last.log[end].pos - last.log[j].pos - 4

\* add_row wrote a row with a list of three lists, one of them empty
C25_Witness ==
  /\ last.op = "add_row" /\ last.ok
  /\ NestedListGiven
  /\ Len(bundle.items[1].items) = 3
  /\ \E i \in 1..3 : bundle.items[1].items[i].items = <<>>
  /\ Len(Events("finish")) = 4

\* the classes of serialize/serialize.py that wrap a native value
NativeWrappers == {"Int", "BigInt", "Double", "Boolean", "Text"}

\* C26: when ValueList.serialize comes to a column with a value wrapped as
\* Int, BigInt, Double, Boolean or Text and the type of the column is not
\* the native type of that wrapper (another native type, a collection, a
\* UDT), the call fails and returns no bytes
C26_ExactNative ==
  (last.op = "ValueList.serialize" /\ OneValuePerColumn) =>
    \A i \in 1..Len(prepared) :
      (/\ CameTo(i) # 0
       /\ Wrapped(Normalized[i]).kind = "wrapper"
       /\ Wrapped(Normalized[i]).cls \in NativeWrappers
       /\ prepared[i].typ # Native(Wrapped(Normalized[i]).cls)) =>
        ~last.ok /\ last.ret = <<>>

\* the values of call i can be aligned with the columns and each is
\* accepted by the serializer of its column
TaskAccepted(i) ==
  LET n == TaskRow(i)
  IN  /\ n.ok
      /\ Len(n.ret) = Len(prepared)
      /\ \A c \in 1..Len(prepared) : CellAlone(prepared[c].typ, n.ret[c]).ok

\* C27: a coroutine of execute_unpaged_python comes to the await of
\* _execute_raw_bytes only from its first line, with values that
\* _normalize_values aligned and add_row accepted for every column, and
\* with the element count of the buffer set to the number of columns;
\* with other values it ends with RuntimeError in the same step and,
\* having ended, never comes to the request
C27_RequestAfterEncoding ==
  [][\A i \in 1..Len(tasks) :
       tasks[i].op = "execute_unpaged_python" =>
         /\ tasks'[i].pc = "awaiting" =>
              \/ tasks[i].pc = "awaiting"
              \/ /\ tasks[i].pc = "called"
                 /\ TaskAccepted(i)
                 /\ tasks'[i].ok
                 /\ tasks'[i].count = Len(prepared)
         /\ (tasks[i].pc = "called" /\ tasks'[i].pc # "called" /\ ~TaskAccepted(i)) =>
              /\ tasks'[i].pc = "done"
              /\ ~tasks'[i].ok
              /\ tasks'[i].raised = "RuntimeError"
         /\ tasks[i].pc = "done" => tasks'[i] = tasks[i]]_vars

\* one coroutine has ended with RuntimeError without a request, for a row
\* whose first column was refused, and another is at its await
C27_Witness ==
  /\ Len(tasks) = 2
  /\ \E i, j \in 1..2 :
       /\ tasks[i].op = "execute_unpaged_python" /\ tasks[j].op = "execute_unpaged_python"
       /\ tasks[i].pc = "done" /\ ~tasks[i].ok /\ tasks[i].raised = "RuntimeError"
       /\ TaskRow(i).ok
       /\ tasks[j].pc = "awaiting" /\ tasks[j].count = Len(prepared)

\* the positions in the log where a cell writer is handed out
Made == {j \in 1..Len(last.log) :
           last.log[j].op \in {"make_cell_writer", "make_sub_writer"}}

\* the positions where writer w is consumed: by set_null, by set_value or
\* by into_value_builder
Consumed(w) ==
  {j \in EventsOn(w) : last.log[j].op \in {"set_null", "set_value", "into_value_builder"}}

\* the positions where the builder of writer w is finished
Finished(w) == {j \in EventsOn(w) : last.log[j].op = "finish"}

\* the position where writer w is completed, 0 when it is not: its
\* set_null or set_value, or the finish of its builder
CompletedAt(w) ==
  IF At("into_value_builder", w) # 0 THEN At("finish", w)
  ELSE First(Consumed(w))

\* the writers at j and m were handed out by the same parent: the row
\* writer, or the same builder
Siblings(j, m) ==
  /\ last.log[j].op = last.log[m].op
  /\ last.log[j].of = last.log[m].of

\* C28: in an add_row that returned, every cell writer handed out by
\* make_cell_writer or make_sub_writer is consumed exactly once, after it
\* was handed out, by set_null, set_value or into_value_builder; a builder
\* is finished exactly once, after it has handed out all its sub-writers
\* and each of them is completed, and a writer that became no builder is
\* never finished; and a writer is handed out only when every sibling
\* handed out before it is completed
C28_WriterProtocol ==
  (last.op = "add_row" /\ last.ok) =>
    \A j \in Made :
      LET w == last.log[j].w
          built == At("into_value_builder", w)
      IN  /\ \A m \in Made : m # j => last.log[m].w # w
          /\ Cardinality(Consumed(w)) = 1
          /\ \A k \in Consumed(w) : k > j
          /\ Cardinality(Finished(w)) = (IF built # 0 THEN 1 ELSE 0)
          /\ \A k \in Finished(w) :
               /\ k > built
               /\ \A m \in Made :
                    (last.log[m].op = "make_sub_writer" /\ last.log[m].of = w) =>
                       /\ built < m /\ m < k
                       /\ CompletedAt(last.log[m].w) \in 1..(k - 1)
          /\ \A m \in Made :
               (m > j /\ Siblings(j, m)) => CompletedAt(w) \in (j + 1)..(m - 1)
          /\ \A k \in EventsOn(w) : k >= j /\ k <= CompletedAt(w)

\* add_row returned after a builder handed out a sub-writer that became a
\* builder itself, handed out sub-writers of its own and was finished
\* before the next sibling was handed out
C28_Witness ==
  /\ last.op = "add_row" /\ last.ok
  /\ \E j, m \in Made :
       /\ last.log[j].op = "make_sub_writer"
       /\ m > j /\ Siblings(j, m)
       /\ At("into_value_builder", last.log[j].w) # 0
       /\ SubWriters(last.log[j].w) # <<>>

\* C29: the streaming and the concatenating encoder agree on every value
\* of every column: given the value of a column alone, both refuse it or
\* both return, with the same bytes for the cell; and for a row of one
\* value for each column both refuse the row or both count one element
\* for each column
C29_EncodersEquivalent ==
  (last.op \in {"add_row", "serialize"} /\ OneValuePerColumn) =>
    /\ \A i \in 1..Len(prepared) :
         LET streamed == CellAlone(prepared[i].typ, Normalized[i])
             joined == serialize_column(Normalized[i], columns_of(prepared)[i], i - 1)
         IN  /\ streamed.ok = joined.ok
             /\ streamed.ok => streamed.bytes = joined.bytes
    /\ (FirstRefused = 0) = (FirstRefusedRaw = 0)

\* C30: a row of no values for a statement of no columns is encoded by
\* serialize and by add_row alike: the call returns, the payload is empty
\* and the element count is 0
C30_EmptyRow ==
  (/\ last.op \in {"add_row", "serialize"}
   /\ prepared = <<>>
   /\ normalize_values(prepared, bundle).ok
   /\ Normalized = <<>>) =>
     /\ last.ok
     /\ last.ret = <<>>
     /\ last.count = 0

====
